---- MODULE Spec2Model ----
(***************************************************************************)
(* A model of the Auto Meta plugin's generation pipeline: the template     *)
(* store (TemplateManager), the front-matter inserter                      *)
(* (MetadataGenerator.insertMetadata / mergeMetadata), the generation      *)
(* client (AIService.generateMetadata) and the orchestrator                *)
(* (generateForFile / generateWithTemplate / batchGenerate).               *)
(*                                                                         *)
(* Texts are sequences of one-character strings, so that the substring     *)
(* arithmetic of the inserter is modelled as the code computes it.         *)
(***************************************************************************)
EXTENDS Integers, Sequences, FiniteSets, TLC

VARIABLES
    \* ---- template store (TemplateManager.templates) ----
    templates,      \* the Map id -> template, as a function on the stored ids
    lastOp,         \* the last store operation: its name, its arguments, its result
    \* ---- one document under insertMetadata ----
    fileText,       \* the document's text in the vault
    insLog,         \* the insertions made so far: <<[before, metadata, replace, after]>>
    \* ---- what the orchestrator works on ----
    vault,          \* the documents: name -> text (app.vault)
    apiKey,         \* AIService.config.apiKey
    usageStats,     \* MetadataGenerator.usageStats (the counters)
    \* ---- one call of batchGenerate ----
    bArgs,          \* its arguments: files, templateId, maxConcurrent, replaceExisting
    bpc,            \* where the call is: idle, loop, await, returned, thrown
    bI,             \* the loop variable i
    task,           \* the per-file async callbacks, by position in files
    results,        \* the results accumulator: success, failed, errors
    progress,       \* the calls of onProgress so far
    \* ---- one generation started from a command ----
    settings,       \* plugin.settings: previewBeforeInsert, replaceExistingMetadata
    gpc,            \* the await or the modal the generation is suspended at
    gReq,           \* the locals of the running generation
    gN,             \* the commands run and regenerations asked for so far
    netCalls,       \* the calls of fetch made so far
    notices,        \* the Notice messages shown so far
    uncaught,       \* whether a promise was rejected with no handler
    aiCall,         \* the running generation's call of generateMetadata: key, fetches, result
    insCall,        \* the insertion made by the running generation
    genLog,         \* the last generation: its file, the state it started in, how it ended
    \* ---- the pure functions, applied to an input ----
    tagIn,          \* a tag value given to formatSingleTag
    tagOut,         \* what formatSingleTag returned for it
    fmtIn,          \* a model output given to validateAndFormatMetadata, and the date
    fmtOut,         \* what validateAndFormatMetadata did with it
    fmtAgain,       \* what it did with its own output
    langIn,         \* a document body given to detectLanguage
    langOut         \* what detectLanguage returned for it

storeVars == <<templates, lastOp>>
insVars   == <<fileText, insLog>>
orchVars  == <<vault, apiKey, usageStats>>
batchVars == <<bArgs, bpc, bI, task, results, progress>>
genVars   == <<settings, gpc, gReq, gN, netCalls, notices, uncaught, aiCall, insCall, genLog>>
pureVars  == <<tagIn, tagOut, fmtIn, fmtOut, fmtAgain, langIn, langOut>>
vars      == <<templates, lastOp, fileText, insLog, vault, apiKey, usageStats,
               bArgs, bpc, bI, task, results, progress,
               settings, gpc, gReq, gN, netCalls, notices, uncaught, aiCall, insCall, genLog,
               tagIn, tagOut, fmtIn, fmtOut, fmtAgain, langIn, langOut>>

(***************************************************************************)
(* Bounds of the model.                                                    *)
(***************************************************************************)
MaxDocLines  == 4   \* lines of an initial document
MaxMetaLines == 1   \* lines of a generated metadata text
MaxInserts   == 1   \* insertions made on the document

(***************************************************************************)
(* JavaScript string primitives, on sequences of characters.               *)
(***************************************************************************)
NL == "\n"
Whitespace == {" ", NL}

Min(a, b) == IF a < b THEN a ELSE b
Max(a, b) == IF a > b THEN a ELSE b

\* String.prototype.startsWith
StartsWith(s, p) == Len(s) >= Len(p) /\ SubSeq(s, 1, Len(p)) = p

\* String.prototype.indexOf(p, from): 0-based index of the first occurrence
\* of p at or after position from, -1 when there is none.
IndexOf(s, p, from) ==
    LET hits == {i \in from..(Len(s) - Len(p)) : SubSeq(s, i + 1, i + Len(p)) = p}
    IN  IF hits = {} THEN -1 ELSE CHOOSE i \in hits : \A j \in hits : i <= j

\* String.prototype.substring(a, b): 0-based, end exclusive; both arguments
\* are clamped to [0, length] and swapped when a > b.
Substring(s, a, b) ==
    LET ca == Min(Max(a, 0), Len(s))
        cb == Min(Max(b, 0), Len(s))
    IN  SubSeq(s, Min(ca, cb) + 1, Max(ca, cb))

\* String.prototype.substring(a)
SubstringFrom(s, a) == Substring(s, a, Len(s))

\* String.prototype.trim
RECURSIVE TrimStart(_)
TrimStart(s) ==
    IF s # <<>> /\ Head(s) \in Whitespace THEN TrimStart(Tail(s)) ELSE s
RECURSIVE TrimEnd(_)
TrimEnd(s) ==
    IF s # <<>> /\ s[Len(s)] \in Whitespace THEN TrimEnd(SubSeq(s, 1, Len(s) - 1)) ELSE s
Trim(s) == TrimEnd(TrimStart(s))

\* String.prototype.split('\n'): the lines of s (one line for the empty text)
RECURSIVE SplitLines(_)
SplitLines(s) ==
    LET i == IndexOf(s, <<NL>>, 0)
    IN  IF i = -1 THEN <<s>>
        ELSE <<SubSeq(s, 1, i)>> \o SplitLines(SubstringFrom(s, i + 1))

\* Array.prototype.join('\n')
RECURSIVE JoinLines(_)
JoinLines(ls) ==
    IF ls = <<>> THEN <<>>
    ELSE IF Len(ls) = 1 THEN ls[1]
    ELSE ls[1] \o <<NL>> \o JoinLines(Tail(ls))

\* Array.prototype.filter(line => line.trim())
RECURSIVE FilterNonBlank(_)
FilterNonBlank(ls) ==
    IF ls = <<>> THEN <<>>
    ELSE IF Trim(Head(ls)) # <<>> THEN <<Head(ls)>> \o FilterNonBlank(Tail(ls))
    ELSE FilterNonBlank(Tail(ls))

DELIM == <<"-", "-", "-">>

(***************************************************************************)
(* MetadataGenerator.mergeMetadata                                         *)
(***************************************************************************)
\* a line is a key-value line when its first ':' is not its first character
IsKeyLine(line) == IndexOf(line, <<":">>, 0) > 0
\* the key of a key-value line: the text before the first ':', trimmed
KeyOf(line) == Trim(Substring(line, 0, IndexOf(line, <<":">>, 0)))

\* processedKeys after the loop over the new lines
ProcessedKeys(newLines) ==
    {KeyOf(newLines[i]) : i \in {j \in 1..Len(newLines) : IsKeyLine(newLines[j])}}

\* the loop over the existing lines: a key-value line is kept when its key was
\* not processed, any other line is kept always
RECURSIVE KeepExisting(_, _)
KeepExisting(existingLines, keys) ==
    IF existingLines = <<>> THEN <<>>
    ELSE LET l == Head(existingLines)
             rest == KeepExisting(Tail(existingLines), keys)
         IN  IF IsKeyLine(l)
             THEN (IF KeyOf(l) \notin keys THEN <<l>> \o rest ELSE rest)
             ELSE <<l>> \o rest

mergeMetadata(existing, newMetadata) ==
    LET existingLines == FilterNonBlank(SplitLines(existing))
        newLines      == FilterNonBlank(SplitLines(newMetadata))
    IN  JoinLines(newLines \o KeepExisting(existingLines, ProcessedKeys(newLines)))

(***************************************************************************)
(* MetadataGenerator.insertMetadata: the text written for a text read      *)
(***************************************************************************)
\* a variant of the prepended text without the blank line after the block
Prepended_NoBlankLine(content, metadata) ==
    DELIM \o <<NL>> \o metadata \o <<NL>> \o DELIM \o <<NL>> \o content

\* lines 176 and 180: the new block, a blank line, the text as read
Prepended(content, metadata) ==
    DELIM \o <<NL>> \o metadata \o <<NL>> \o DELIM \o <<NL, NL>> \o content

insertedText(content, metadata, replaceExisting) ==
    IF StartsWith(content, DELIM)
    THEN LET endIndex == IndexOf(content, DELIM, 3)
         IN  IF endIndex # -1
             THEN IF replaceExisting
                  THEN DELIM \o <<NL>> \o metadata \o <<NL>> \o DELIM \o <<NL>>
                         \o SubstringFrom(content, endIndex + 4)
                  ELSE DELIM \o <<NL>>
                         \o mergeMetadata(Substring(content, 4, endIndex), metadata)
                         \o <<NL>> \o DELIM \o <<NL>>
                         \o SubstringFrom(content, endIndex + 4)
             ELSE Prepended(content, metadata)
    ELSE Prepended(content, metadata)

\* MetadataGenerator.extractDocumentContent
extractDocumentContent(content) ==
    IF StartsWith(content, DELIM) /\ IndexOf(content, DELIM, 3) # -1
    THEN Trim(SubstringFrom(content, IndexOf(content, DELIM, 3) + 4))
    ELSE Trim(content)

\* MetadataGenerator.extractExistingMetadata, on the text read: the block's
\* text as a set, empty when the result is undefined
extractExistingMetadata(content) ==
    IF StartsWith(content, DELIM) /\ IndexOf(content, DELIM, 3) # -1
    THEN {Trim(Substring(content, 4, IndexOf(content, DELIM, 3)))}
    ELSE {}

(***************************************************************************)
(* The documents and metadata texts the model draws its inputs from.       *)
(***************************************************************************)
DocLineAlphabet ==
    { DELIM,                          \* ---
      <<"a", ":", " ", "1">>,         \* a: 1
      <<"b", ":", " ">> \o DELIM,     \* b: ---   (a value holding three hyphens)
      <<"-", " ", "x">>,              \* - x      (a list item, or a line of the body)
      <<>> }                          \* an empty line

MetaLineAlphabet ==
    { <<"a", ":", " ", "2">>,         \* a: 2
      <<"c", ":", " ", "3">>,         \* c: 3
      <<"-", " ", "y">> }             \* - y

SeqsUpTo(S, n) == UNION {[1..k -> S] : k \in 0..n}

Docs  == {JoinLines(ls) : ls \in SeqsUpTo(DocLineAlphabet, MaxDocLines)}
Metas == {JoinLines(ls) : ls \in SeqsUpTo(MetaLineAlphabet, MaxMetaLines) \ {<<>>}}

(***************************************************************************)
(* The inserter as a state machine: one document, insertions on it.        *)
(***************************************************************************)
InsInit ==
    /\ fileText \in Docs
    /\ insLog = <<>>

\* insertMetadata(file, metadata, replaceExisting): vault.read, then vault.modify
InsertMetadata(metadata, replaceExisting) ==
    /\ Len(insLog) < MaxInserts
    /\ UNCHANGED <<storeVars, orchVars, batchVars, genVars, pureVars>>
    /\ fileText' = insertedText(fileText, metadata, replaceExisting)
    /\ insLog' = Append(insLog, [before |-> fileText, metadata |-> metadata,
                                  replace |-> replaceExisting,
                                  after |-> insertedText(fileText, metadata, replaceExisting)])

InsMerge   == \E m \in Metas : InsertMetadata(m, FALSE)
InsReplace == \E m \in Metas : InsertMetadata(m, TRUE)

(***************************************************************************)
(* The same metadata inserted twice in merge mode: insertMetadata(d, m),   *)
(* then insertMetadata(file, m) on the document the first call wrote.      *)
(***************************************************************************)
ShortDocs == {JoinLines(ls) : ls \in SeqsUpTo(DocLineAlphabet, MaxDocLines - 1)}

ReinsertInit ==
    /\ fileText \in ShortDocs
    /\ insLog = <<>>

\* insertMetadata(file, metadata) with replaceExisting left at its default
MergeInto(metadata) ==
    /\ fileText' = insertedText(fileText, metadata, FALSE)
    /\ insLog' = Append(insLog, [before |-> fileText, metadata |-> metadata,
                                  replace |-> FALSE,
                                  after |-> insertedText(fileText, metadata, FALSE)])
    /\ UNCHANGED <<storeVars, orchVars, batchVars, genVars, pureVars>>

MergeOnce  == \E m \in Metas : insLog = <<>> /\ MergeInto(m)
MergeAgain == Len(insLog) = 1 /\ MergeInto(insLog[1].metadata)

(***************************************************************************)
(* TemplateManager: the template store.                                    *)
(*                                                                         *)
(* A template is [id, name, isBuiltIn, createdAt, updatedAt]; name stands  *)
(* for the four text fields (name, description, yamlStructure, aiPrompt),  *)
(* which every operation copies or replaces together.  The Map is a        *)
(* function on the stored ids.                                             *)
(***************************************************************************)
MaxStoreOps == 3   \* store operations in one behaviour (also the clock's range)
MaxLoadLen  == 2   \* entries of a list given to loadFromJson

BuiltInIds == {"general-note", "meeting-notes", "academic-paper", "book-review", "project-doc"}

\* defaults.ts: BUILT_IN_TEMPLATES
BUILT_IN_TEMPLATES ==
    [id \in BuiltInIds |->
        [id |-> id, name |-> id, isBuiltIn |-> TRUE, createdAt |-> 0, updatedAt |-> 0]]

\* the ids generateTemplateId may return: custom-<time>-<random>
GeneratedIds == {"custom-1", "custom-2"}
\* the text of a template given by the caller
Names == {"X", "Y"}
\* ids named by callers: every id above and one that is never stored
UnknownId == "no-such-id"
CallIds == BuiltInIds \cup GeneratedIds \cup {UnknownId}
\* entries of a serialized list: any of these ids, any flag
LoadIds == {"general-note", "meeting-notes", "custom-1"}
LoadEntries ==
    [id : LoadIds, name : {"X"}, isBuiltIn : BOOLEAN, createdAt : {0}, updatedAt : {0}]
LoadLists == SeqsUpTo(LoadEntries, MaxLoadLen)

\* Map.prototype.set
MapSet(m, id, t) == [k \in DOMAIN m \cup {id} |-> IF k = id THEN t ELSE m[k]]
\* Map.prototype.delete
MapDelete(m, id) == [k \in DOMAIN m \ {id} |-> m[k]]

\* constructor / initializeBuiltInTemplates
initializeBuiltInTemplates == BUILT_IN_TEMPLATES

getBuiltInTemplates(m) == {m[k] : k \in {j \in DOMAIN m : m[j].isBuiltIn}}
getCustomTemplates(m)  == {m[k] : k \in {j \in DOMAIN m : ~m[j].isBuiltIn}}

\* addTemplate(template): the stored template gets the generated id newId
addTemplate(m, name, isBuiltIn, newId, now) ==
    LET newTemplate == [id |-> newId, name |-> name, isBuiltIn |-> isBuiltIn,
                        createdAt |-> now, updatedAt |-> now]
    IN  [ret |-> newTemplate, store |-> MapSet(m, newId, newTemplate)]

\* a variant of updateTemplate that lacks the built-in guard
updateTemplate_NoBuiltInGuard(m, id, name, now) ==
    IF id \notin DOMAIN m
    THEN [ret |-> FALSE, store |-> m]
    ELSE [ret |-> TRUE,
          store |-> MapSet(m, id, [m[id] EXCEPT !.name = name, !.updatedAt = now])]

\* updateTemplate(id, updates)
updateTemplate(m, id, name, now) ==
    IF id \notin DOMAIN m \/ m[id].isBuiltIn
    THEN [ret |-> FALSE, store |-> m]
    ELSE [ret |-> TRUE,
          store |-> MapSet(m, id, [m[id] EXCEPT !.name = name, !.updatedAt = now])]

\* deleteTemplate(id)
deleteTemplate(m, id) ==
    IF id \notin DOMAIN m \/ m[id].isBuiltIn
    THEN [ret |-> FALSE, store |-> m]
    ELSE [ret |-> TRUE, store |-> MapDelete(m, id)]

\* duplicateTemplate(id, name): name = "" stands for an omitted name
duplicateTemplate(m, id, name, newId, now) ==
    IF id \notin DOMAIN m
    THEN [ret |-> "null", store |-> m]
    ELSE addTemplate(m, IF name # "" THEN name ELSE "copy of " \o m[id].name,
                     FALSE, newId, now)

\* loadFromJson(templatesData): the built-in entries of the store are put back,
\* then every entry of the list not marked built-in is set, in list order
RECURSIVE SetAllCustom(_, _)
SetAllCustom(m, list) ==
    IF list = <<>> THEN m
    ELSE SetAllCustom(IF ~Head(list).isBuiltIn THEN MapSet(m, Head(list).id, Head(list)) ELSE m,
                      Tail(list))

loadFromJson(m, templatesData) ==
    LET builtIns == {k \in DOMAIN m : m[k].isBuiltIn}
    IN  SetAllCustom([k \in builtIns |-> m[k]], templatesData)

(***************************************************************************)
(* The store as a state machine.                                           *)
(***************************************************************************)
StoreNow == lastOp.n + 1

\* no operation yet; given is the set of the entries of the list handed to
\* loadFromJson
NoOp == [op |-> "new", id |-> "", ret |-> "", n |-> 0, given |-> {}]

StoreInit ==
    /\ templates = initializeBuiltInTemplates
    /\ lastOp = NoOp

AddTemplate ==
    \E name \in Names, b \in BOOLEAN, newId \in GeneratedIds :
        LET r == addTemplate(templates, name, b, newId, StoreNow)
        IN  /\ lastOp.n < MaxStoreOps
            /\ templates' = r.store
            /\ lastOp' = [NoOp EXCEPT !.op = "addTemplate", !.id = newId, !.ret = r.ret, !.n = StoreNow]
            /\ UNCHANGED <<insVars, orchVars, batchVars, genVars, pureVars>>

UpdateTemplate ==
    \E id \in CallIds, name \in Names :
        LET r == updateTemplate(templates, id, name, StoreNow)
        IN  /\ lastOp.n < MaxStoreOps
            /\ templates' = r.store
            /\ lastOp' = [NoOp EXCEPT !.op = "updateTemplate", !.id = id, !.ret = r.ret, !.n = StoreNow]
            /\ UNCHANGED <<insVars, orchVars, batchVars, genVars, pureVars>>

DeleteTemplate ==
    \E id \in CallIds :
        LET r == deleteTemplate(templates, id)
        IN  /\ lastOp.n < MaxStoreOps
            /\ templates' = r.store
            /\ lastOp' = [NoOp EXCEPT !.op = "deleteTemplate", !.id = id, !.ret = r.ret, !.n = StoreNow]
            /\ UNCHANGED <<insVars, orchVars, batchVars, genVars, pureVars>>

DuplicateTemplate ==
    \E id \in CallIds, name \in Names \cup {""}, newId \in GeneratedIds :
        LET r == duplicateTemplate(templates, id, name, newId, StoreNow)
        IN  /\ lastOp.n < MaxStoreOps
            /\ templates' = r.store
            /\ lastOp' = [NoOp EXCEPT !.op = "duplicateTemplate", !.id = id, !.ret = r.ret, !.n = StoreNow]
            /\ UNCHANGED <<insVars, orchVars, batchVars, genVars, pureVars>>

LoadFromJson ==
    \E list \in LoadLists :
        /\ lastOp.n < MaxStoreOps
        /\ templates' = loadFromJson(templates, list)
        /\ lastOp' = [NoOp EXCEPT !.op = "loadFromJson", !.ret = "void", !.n = StoreNow,
                                  !.given = {list[i] : i \in DOMAIN list}]
        /\ UNCHANGED <<insVars, orchVars, batchVars, genVars, pureVars>>

(***************************************************************************)
(* TemplateManager.suggestTemplates                                        *)
(*                                                                         *)
(* A character outside ASCII is written as one token named by its code     *)
(* point ("u4f1a"); a confidence is written in hundredths (0.9 is 90).     *)
(***************************************************************************)
\* String.prototype.includes
Includes(s, p) == IndexOf(s, p, 0) # -1

UpperCase == <<"A", "B", "C", "D", "E", "F", "G", "H", "I", "J", "K", "L", "M",
               "N", "O", "P", "Q", "R", "S", "T", "U", "V", "W", "X", "Y", "Z">>
LowerCase == <<"a", "b", "c", "d", "e", "f", "g", "h", "i", "j", "k", "l", "m",
               "n", "o", "p", "q", "r", "s", "t", "u", "v", "w", "x", "y", "z">>
\* String.prototype.toLowerCase
ToLowerChar(c) ==
    IF \E i \in 1..26 : UpperCase[i] = c
    THEN LowerCase[CHOOSE i \in 1..26 : UpperCase[i] = c] ELSE c
ToLower(s) == [i \in 1..Len(s) |-> ToLowerChar(s[i])]

AcademicKeywords ==
    { <<"a", "b", "s", "t", "r", "a", "c", "t">>,
      <<"u6458", "u8981">>,
      <<"i", "n", "t", "r", "o", "d", "u", "c", "t", "i", "o", "n">>,
      <<"u5f15", "u8a00">>,
      <<"m", "e", "t", "h", "o", "d", "o", "l", "o", "g", "y">>,
      <<"u65b9", "u6cd5">>,
      <<"r", "e", "s", "u", "l", "t", "s">>,
      <<"u7ed3", "u679c">>,
      <<"c", "o", "n", "c", "l", "u", "s", "i", "o", "n">>,
      <<"u7ed3", "u8bba">>,
      <<"r", "e", "f", "e", "r", "e", "n", "c", "e", "s">>,
      <<"u53c2", "u8003", "u6587", "u732e">>,
      <<"d", "o", "i">>,
      <<"a", "r", "x", "i", "v">>,
      <<"j", "o", "u", "r", "n", "a", "l">>,
      <<"c", "o", "n", "f", "e", "r", "e", "n", "c", "e">>,
      <<"u8bba", "u6587">>,
      <<"u7814", "u7a76">> }

containsAcademicKeywords(content) == \E keyword \in AcademicKeywords : Includes(content, keyword)

MeetingKeywords ==
    { <<"m", "e", "e", "t", "i", "n", "g">>,
      <<"u4f1a", "u8bae">>,
      <<"a", "g", "e", "n", "d", "a">>,
      <<"u8bae", "u7a0b">>,
      <<"a", "t", "t", "e", "n", "d", "e", "e", "s">>,
      <<"u53c2", "u4e0e", "u8005">>,
      <<"m", "i", "n", "u", "t", "e", "s">>,
      <<"u4f1a", "u8bae", "u7eaa", "u8981">>,
      <<"a", "c", "t", "i", "o", "n", " ", "i", "t", "e", "m", "s">>,
      <<"u884c", "u52a8", "u9879">>,
      <<"d", "i", "s", "c", "u", "s", "s", "i", "o", "n">>,
      <<"u8ba8", "u8bba">>,
      <<"d", "e", "c", "i", "s", "i", "o", "n">>,
      <<"u51b3", "u5b9a">>,
      <<"n", "e", "x", "t", " ", "s", "t", "e", "p", "s">>,
      <<"u4e0b", "u4e00", "u6b65">>,
      <<"u53c2", "u4f1a", "u4eba", "u5458">> }

containsMeetingKeywords(content) == \E keyword \in MeetingKeywords : Includes(content, keyword)

BookKeywords ==
    { <<"c", "h", "a", "p", "t", "e", "r">>,
      <<"u7ae0", "u8282">>,
      <<"a", "u", "t", "h", "o", "r">>,
      <<"u4f5c", "u8005">>,
      <<"b", "o", "o", "k">>,
      <<"u4e66", "u7c4d">>,
      <<"r", "e", "a", "d", "i", "n", "g">>,
      <<"u9605", "u8bfb">>,
      <<"s", "u", "m", "m", "a", "r", "y">>,
      <<"u603b", "u7ed3">>,
      <<"n", "o", "t", "e", "s">>,
      <<"u7b14", "u8bb0">>,
      <<"q", "u", "o", "t", "e">>,
      <<"u5f15", "u7528">>,
      <<"r", "e", "v", "i", "e", "w">>,
      <<"u8bc4", "u8bba">>,
      <<"i", "s", "b", "n">>,
      <<"p", "u", "b", "l", "i", "s", "h", "e", "r">>,
      <<"u51fa", "u7248", "u793e">> }

containsBookKeywords(content) == \E keyword \in BookKeywords : Includes(content, keyword)

ProjectKeywords ==
    { <<"p", "r", "o", "j", "e", "c", "t">>,
      <<"u9879", "u76ee">>,
      <<"r", "e", "q", "u", "i", "r", "e", "m", "e", "n", "t", "s">>,
      <<"u9700", "u6c42">>,
      <<"t", "i", "m", "e", "l", "i", "n", "e">>,
      <<"u65f6", "u95f4", "u7ebf">>,
      <<"d", "e", "l", "i", "v", "e", "r", "a", "b", "l", "e">>,
      <<"u4ea4", "u4ed8", "u7269">>,
      <<"m", "i", "l", "e", "s", "t", "o", "n", "e">>,
      <<"u91cc", "u7a0b", "u7891">>,
      <<"s", "p", "e", "c", "i", "f", "i", "c", "a", "t", "i", "o", "n">>,
      <<"u89c4", "u8303">>,
      <<"a", "r", "c", "h", "i", "t", "e", "c", "t", "u", "r", "e">>,
      <<"u67b6", "u6784">>,
      <<"i", "m", "p", "l", "e", "m", "e", "n", "t", "a", "t", "i", "o", "n">>,
      <<"u5b9e", "u73b0">>,
      <<"v", "e", "r", "s", "i", "o", "n">>,
      <<"u7248", "u672c">> }

containsProjectKeywords(content) == \E keyword \in ProjectKeywords : Includes(content, keyword)

\* the switch on template.id: the confidence of a template for a document
confidenceOf(id, content, filename) ==
    CASE id = "academic-paper" ->
           IF containsAcademicKeywords(content) \/ Includes(filename, <<"p", "a", "p", "e", "r">>)
           THEN 80 ELSE 0
      [] id = "meeting-notes" ->
           IF containsMeetingKeywords(content)
              \/ Includes(filename, <<"m", "e", "e", "t", "i", "n", "g">>)
           THEN 90 ELSE 0
      [] id = "book-review" ->
           IF containsBookKeywords(content) \/ Includes(filename, <<"b", "o", "o", "k">>)
           THEN 85 ELSE 0
      [] id = "project-doc" ->
           IF containsProjectKeywords(content)
              \/ Includes(filename, <<"p", "r", "o", "j", "e", "c", "t">>)
           THEN 75 ELSE 0
      [] id = "general-note" -> 30
      [] OTHER -> 0

\* suggestions.sort((a, b) => b.confidence - a.confidence).  Two suggestions
\* never tie: each of the five ids has its own confidence and an id is stored
\* once, so the order does not depend on the Map's iteration order.
RECURSIVE sortByConfidence(_)
sortByConfidence(S) ==
    IF S = {} THEN <<>>
    ELSE LET best == CHOOSE x \in S : \A y \in S : x.confidence >= y.confidence
         IN  <<best>> \o sortByConfidence(S \ {best})

suggestTemplates(m, documentContent, fileName) ==
    LET content  == ToLower(documentContent)
        filename == ToLower(fileName)
    IN  sortByConfidence(
            { [template |-> m[id], confidence |-> confidenceOf(id, content, filename)] :
                id \in {k \in DOMAIN m : confidenceOf(k, content, filename) > 20} })

(***************************************************************************)
(* AIService.formatSingleTag                                               *)
(*                                                                         *)
(* The character classes of its regular expressions, on the tokens of the  *)
(* model: \w is the ASCII letters, digits and underscore; the range       *)
(* u4e00-u9fff is the CJK Unified Ideographs block; the kana and Hangul    *)
(* ranges are kept by the CJK branch but do not select it.                 *)
(***************************************************************************)
Range(s) == {s[i] : i \in DOMAIN s}

Digits == {"0", "1", "2", "3", "4", "5", "6", "7", "8", "9"}
\* \w
WordChars == Range(UpperCase) \cup Range(LowerCase) \cup Digits \cup {"_"}
\* the range u4e00-u9fff: u673a and u5b66 stand for the block
HanChars == {"u673a", "u5b66"}
\* the ranges u3040-u309f, u30a0-u30ff and uac00-ud7af: a katakana, a Hangul syllable
KanaHangulChars == {"u30ab", "ud55c"}

\* s.replace(/[C]/g, ''): every character of the class removed
RECURSIVE RemoveChars(_, _)
RemoveChars(s, C) ==
    IF s = <<>> THEN <<>>
    ELSE IF Head(s) \in C THEN RemoveChars(Tail(s), C)
    ELSE <<Head(s)>> \o RemoveChars(Tail(s), C)

\* s.replace(/[^K]/g, ''): every character outside the class removed
RECURSIVE RemoveCharsNotIn(_, _)
RemoveCharsNotIn(s, K) ==
    IF s = <<>> THEN <<>>
    ELSE IF Head(s) \notin K THEN RemoveCharsNotIn(Tail(s), K)
    ELSE <<Head(s)>> \o RemoveCharsNotIn(Tail(s), K)

\* s.replace(/[^K]/g, r): every character outside the class replaced by r
ReplaceCharsNotIn(s, K, r) == [i \in 1..Len(s) |-> IF s[i] \notin K THEN r ELSE s[i]]

\* s.replace(/[C]+/g, r): every maximal run of the class replaced by one r
RECURSIVE ReplaceRuns(_, _, _)
ReplaceRuns(s, C, r) ==
    IF s = <<>> THEN <<>>
    ELSE IF Head(s) \in C
         THEN IF Len(s) > 1 /\ s[2] \in C
              THEN ReplaceRuns(Tail(s), C, r)
              ELSE <<r>> \o ReplaceRuns(Tail(s), C, r)
         ELSE <<Head(s)>> \o ReplaceRuns(Tail(s), C, r)

\* s.replace(/^-|-$/g, ''): one hyphen off the start, one off the end
StripHyphens(s) ==
    LET a == IF s # <<>> /\ Head(s) = "-" THEN Tail(s) ELSE s
    IN  IF a # <<>> /\ a[Len(a)] = "-" THEN SubSeq(a, 1, Len(a) - 1) ELSE a

\* a variant that lowercases in the CJK branch too
formatSingleTag_LowercaseCJK(tagValue) ==
    IF Trim(tagValue) = <<>> THEN <<>>
    ELSE LET t == Trim(tagValue)
         IN  IF \E i \in 1..Len(t) : t[i] \in HanChars
             THEN ToLower(RemoveCharsNotIn(RemoveChars(t, Whitespace \cup {"_"}),
                                           WordChars \cup HanChars \cup KanaHangulChars))
             ELSE StripHyphens(
                    ReplaceRuns(
                      ReplaceCharsNotIn(
                        ReplaceRuns(ToLower(t), Whitespace \cup {"_"}, "-"),
                        WordChars \cup {"-"}, "-"),
                      {"-"}, "-"))

\* AIService.formatSingleTag
formatSingleTag(tagValue) ==
    IF Trim(tagValue) = <<>> THEN <<>>
    ELSE LET t == Trim(tagValue)
             hasChinese == \E i \in 1..Len(t) : t[i] \in HanChars
         IN  IF hasChinese
             THEN RemoveCharsNotIn(RemoveChars(t, Whitespace \cup {"_"}),
                                   WordChars \cup HanChars \cup KanaHangulChars)
             ELSE StripHyphens(
                    ReplaceRuns(
                      ReplaceCharsNotIn(
                        ReplaceRuns(ToLower(t), Whitespace \cup {"_"}, "-"),
                        WordChars \cup {"-"}, "-"),
                      {"-"}, "-"))

(***************************************************************************)
(* AIService.validateAndFormatMetadata and the two formatters it calls.    *)
(* A regular expression is modelled by the scan the engine makes.          *)
(***************************************************************************)
Quotes == {"\"", "'"}
TAGS   == <<"t", "a", "g", "s", ":">>
TITLE  == <<"t", "i", "t", "l", "e", ":">>
\* three backticks (the backtick is written by its code point)
FENCE  == <<"u0060", "u0060", "u0060">>
DATE_PLACEHOLDER == <<"{", "{", "d", "a", "t", "e", "}", "}">>

EndsWith(s, p) == Len(s) >= Len(p) /\ SubSeq(s, Len(s) - Len(p) + 1, Len(s)) = p
\* s.replace(/^p/, '')
StripPrefix(s, p) == IF StartsWith(s, p) THEN SubSeq(s, Len(p) + 1, Len(s)) ELSE s
\* s.replace(/p$/, '')
StripSuffix(s, p) == IF EndsWith(s, p) THEN SubSeq(s, 1, Len(s) - Len(p)) ELSE s

\* s.replace(/p/g, r) for a literal p
RECURSIVE ReplaceAll(_, _, _)
ReplaceAll(s, p, r) ==
    IF s = <<>> THEN <<>>
    ELSE IF StartsWith(s, p) THEN r \o ReplaceAll(SubSeq(s, Len(p) + 1, Len(s)), p, r)
    ELSE <<Head(s)>> \o ReplaceAll(Tail(s), p, r)

\* the length of the longest prefix of s made of characters of C
RECURSIVE SpanOf(_, _)
SpanOf(s, C) == IF s # <<>> /\ Head(s) \in C THEN 1 + SpanOf(Tail(s), C) ELSE 0
\* the position (from 1) of the first character of s in C, 0 if none
RECURSIVE FirstIn(_, _)
FirstIn(s, C) ==
    IF s = <<>> THEN 0
    ELSE IF Head(s) \in C THEN 1
    ELSE IF FirstIn(Tail(s), C) = 0 THEN 0 ELSE 1 + FirstIn(Tail(s), C)
Drop(s, n) == SubSeq(s, n + 1, Len(s))

\* the replacement of a quoted value: "formatted", or the match when the
\* formatted value is empty
Requoted(open, value, close) ==
    IF formatSingleTag(value) # <<>>
    THEN <<"\"">> \o formatSingleTag(value) \o <<"\"">>
    ELSE <<open>> \o value \o <<close>>

\* tagsContent.replace(/["']([^"'\n]*?)["']/g, ...), line 723
RECURSIVE formatQuotedTags(_)
formatQuotedTags(s) ==
    IF s = <<>> THEN <<>>
    ELSE LET rest == Tail(s)
             k    == FirstIn(rest, Quotes \cup {NL})
         IN  IF Head(s) \in Quotes /\ k > 0 /\ rest[k] \in Quotes
             THEN Requoted(Head(s), SubSeq(rest, 1, k - 1), rest[k])
                    \o formatQuotedTags(Drop(rest, k))
             ELSE <<Head(s)>> \o formatQuotedTags(rest)

\* metadata.replace(/tags:\s*\[([\s\S]*?)\]/gm, ...), lines 722-728
RECURSIVE formatInlineTags(_)
formatInlineTags(s) ==
    LET i == IndexOf(s, TAGS, 0)
    IN  IF i = -1 THEN s
        ELSE LET after == Drop(s, i + 5)
                 w     == SpanOf(after, Whitespace)
                 inner == Drop(after, w + 1)
                 k     == FirstIn(inner, {"]"})
             IN  IF Len(after) > w /\ after[w + 1] = "[" /\ k > 0
                 THEN SubSeq(s, 1, i) \o TAGS \o <<" ", "[">>
                        \o formatQuotedTags(SubSeq(inner, 1, k - 1)) \o <<"]">>
                        \o formatInlineTags(Drop(inner, k))
                 ELSE SubSeq(s, 1, i + 5) \o formatInlineTags(after)

\* the length of the longest prefix of s matching (\s*-\s*[^\n]*\n?)*
RECURSIVE ListItemsSpan(_)
ListItemsSpan(s) ==
    LET w == SpanOf(s, Whitespace)
    IN  IF Len(s) > w /\ s[w + 1] = "-"
        THEN LET w2   == SpanOf(Drop(s, w + 1), Whitespace)
                 line == Drop(s, w + 1 + w2)
                 n    == FirstIn(line, {NL})
                 used == IF n = 0 THEN Len(s) ELSE w + 1 + w2 + n
             IN  used + ListItemsSpan(Drop(s, used))
        ELSE 0

\* match.replace(/(\s*-\s*)["']([^"'\n]+?)["'](\n?)/g, ...), lines 730-733
RECURSIVE formatListItems(_)
formatListItems(s) ==
    IF s = <<>> THEN <<>>
    ELSE LET rest == Tail(s)
             w    == SpanOf(rest, Whitespace)
             q    == Drop(rest, w)
             k    == IF q = <<>> THEN 0 ELSE FirstIn(Tail(q), Quotes \cup {NL})
         IN  IF Head(s) = "-" /\ q # <<>> /\ Head(q) \in Quotes
                /\ k > 1 /\ Tail(q)[k] \in Quotes
             THEN <<"-">> \o SubSeq(rest, 1, w)
                    \o Requoted(Head(q), SubSeq(Tail(q), 1, k - 1), Tail(q)[k])
                    \o formatListItems(Drop(Tail(q), k))
             ELSE <<Head(s)>> \o formatListItems(rest)

\* the position (from 1) of the last newline in the first n characters of s
LastNewline(s, n) ==
    IF \E j \in 1..n : s[j] = NL
    THEN CHOOSE j \in 1..n : s[j] = NL /\ \A k \in (j + 1)..n : s[k] # NL
    ELSE 0

\* .replace(/tags:\s*\n(\s*-\s*[^\n]*\n?)*/gm, ...), lines 729-734
RECURSIVE formatBlockTags(_)
formatBlockTags(s) ==
    LET i == IndexOf(s, TAGS, 0)
    IN  IF i = -1 THEN s
        ELSE LET after == Drop(s, i + 5)
                 w     == SpanOf(after, Whitespace)
                 nl    == LastNewline(after, w)
                 \* \s* gives back the whitespace after the run's last newline
                 len   == nl + ListItemsSpan(Drop(after, nl))
             IN  IF nl > 0
                 THEN SubSeq(s, 1, i) \o formatListItems(TAGS \o SubSeq(after, 1, len))
                        \o formatBlockTags(Drop(after, len))
                 ELSE SubSeq(s, 1, i + 5) \o formatBlockTags(after)

formatTagsForObsidian(metadata) == formatBlockTags(formatInlineTags(metadata))

\* metadata.replace(/^title:\s*["']([^"'\n]+)["']?$/gm, ...) on one line of the
\* text (the texts of the model have no line that ends right after title:,
\* where \s* would reach into the next line)
formatTitleLine(line) ==
    IF StartsWith(line, TITLE)
    THEN LET after == Drop(line, 6)
             w     == SpanOf(after, Whitespace)
             q     == Drop(after, w)
             value == IF q = <<>> THEN <<>>
                      ELSE SubSeq(Tail(q), 1, SpanOf(Tail(q), Range(Tail(q)) \ Quotes))
             tail  == IF q = <<>> THEN <<>> ELSE Drop(Tail(q), Len(value))
         IN  IF q # <<>> /\ Head(q) \in Quotes /\ value # <<>>
                /\ (tail = <<>> \/ (Len(tail) = 1 /\ Head(tail) \in Quotes))
                /\ Trim(value) # <<>>
             THEN TITLE \o <<" ", "\"">> \o formatSingleTag(value) \o <<"\"">>
             ELSE line
    ELSE line

formatTitleForObsidian(metadata) ==
    JoinLines([i \in 1..Len(SplitLines(metadata)) |-> formatTitleLine(SplitLines(metadata)[i])])

\* the messages thrown for a payload without choices (makeApiRequest) and
\* for a content that formats to nothing (validateAndFormatMetadata)
NoChoices  == "API response format error: missing choices field"
EmptyBlock == "Metadata format validation failed: Generated metadata is empty"

\* the current date, new Date().toISOString().split('T')[0]
Dates == { <<"2", "0", "2", "6", "-", "0", "1", "-", "0", "2">> }

Thrown(message) == [ok |-> FALSE, text |-> <<>>, error |-> message]
Returned(text) == [ok |-> TRUE, text |-> text, error |-> ""]

\* the text after the fence and delimiter removals of lines 691-695
cleanMetadata(metadata) ==
    StripPrefix(
      StripSuffix(StripPrefix(
        StripSuffix(StripPrefix(metadata, FENCE \o <<"y", "a", "m", "l", NL>>),
                    <<NL>> \o FENCE),
        FENCE \o <<NL>>), <<NL>> \o FENCE),
      DELIM \o <<NL>>)

\* AIService.validateAndFormatMetadata
validateAndFormatMetadata(metadata, currentDate) ==
    IF FilterNonBlank(SplitLines(cleanMetadata(metadata))) = <<>>
    THEN Thrown(EmptyBlock)
    ELSE Returned(formatTitleForObsidian(formatTagsForObsidian(
             ReplaceAll(cleanMetadata(metadata), DATE_PLACEHOLDER, currentDate))))

(***************************************************************************)
(* The documents of the vault and the generation client seen as a whole.   *)
(***************************************************************************)
MaxFiles      == 3   \* files given to batchGenerate
MaxConcurrent == 2   \* largest maxConcurrent given to batchGenerate

DocNames == {"d1", "d2"}

\* the texts a document of the vault starts with: empty, or a plain body (a
\* document has a front-matter block once an insertion was made on it)
VaultTexts == { <<>>, <<"t">> }

\* AutoMetaError (types.ts) and the messages thrown inside AIService
API_KEY_MISSING  == "API_KEY_MISSING"
INVALID_RESPONSE == "INVALID_RESPONSE"
\* the messages of the failures a request can end in, as far as the callers of
\* generateMetadata tell them apart: they read response.error only to report it
RequestErrors == { "API request timeout", INVALID_RESPONSE }

\* a completion the endpoint may give: the formatted metadata and the usage
Completions ==
    { [metadata |-> <<"a", ":", " ", "2">>, tokensUsed |-> 0],
      [metadata |-> <<"c", ":", " ", "3">>, tokensUsed |-> 7] }

Failure(error) == [success |-> FALSE, metadata |-> <<>>, error |-> error, tokensUsed |-> 0]
Success(c) == [success |-> TRUE, metadata |-> c.metadata, error |-> "", tokensUsed |-> c.tokensUsed]

\* a variant of the check that lets every key through
apiKeyMissing_Never(key) == FALSE

\* AIService.generateMetadata: the apiKey check, lines 298-301
apiKeyMissing(key) == key = ""

\* AIService.generateMetadata: the responses a call may resolve with; it never
\* rejects (every throw is caught and returned as a failure)
generateMetadataOutcomes(key) ==
    IF apiKeyMissing(key)
    THEN {Failure(API_KEY_MISSING)}
    ELSE {Success(c) : c \in Completions} \cup {Failure(e) : e \in RequestErrors}

\* MetadataGenerator.updateUsageStats (the counters)
updateUsageStats(stats, response) ==
    [stats EXCEPT !.totalRequests = @ + 1,
                  !.successfulRequests = IF response.success THEN @ + 1 ELSE @,
                  !.failedRequests = IF response.success THEN @ ELSE @ + 1,
                  !.totalTokensUsed = @ + response.tokensUsed]

ZeroStats == [totalRequests |-> 0, successfulRequests |-> 0, failedRequests |-> 0,
              totalTokensUsed |-> 0]

OrchInit ==
    /\ vault \in [DocNames -> VaultTexts]
    /\ apiKey \in {"", "k"}
    /\ usageStats = ZeroStats

(***************************************************************************)
(* MetadataGenerator.batchGenerate                                         *)
(*                                                                         *)
(* Each file of a window runs one async callback; its suspension points    *)
(* are the awaits of vault.read, generateMetadata, insertMetadata's        *)
(* vault.read and insertMetadata's vault.modify.  A task's pc names the    *)
(* await it is suspended at; its locals are dropped when it settles.       *)
(***************************************************************************)
NoArgs == [files |-> <<>>, templateId |-> "", maxConcurrent |-> 0, replaceExisting |-> FALSE]
NewTask == [pc |-> "new", response |-> Failure(""), newContent |-> <<>>]

InProgressPcs == {"read", "generate", "insRead", "insWrite"}
SettledPcs    == {"ok", "failed"}

BatchInit ==
    /\ bArgs = NoArgs
    /\ bpc = "idle"
    /\ bI = 0
    /\ task = <<>>
    /\ results = [success |-> 0, failed |-> 0, errors |-> <<>>]
    /\ progress = <<>>

\* TemplateManager.getTemplate: the template stored under id, as a set that
\* is empty when there is none (undefined)
getTemplate(m, id) == IF id \in DOMAIN m THEN {m[id]} ELSE {}

\* files.slice(i, i + maxConcurrent), as the positions (from 1) of its elements
batchPositions(files, i, maxConcurrent) ==
    {p \in 1..Len(files) : i < p /\ p <= i + maxConcurrent}

\* batch.indexOf(file), for the file at position p of files
batchIndexOf(files, i, maxConcurrent, p) ==
    LET same == {q \in batchPositions(files, i, maxConcurrent) : files[q] = files[p]}
    IN  (CHOOSE q \in same : \A r \in same : q <= r) - i - 1

\* the calls of onProgress a window makes, in the order of its files
RECURSIVE progressCalls(_, _, _, _)
progressCalls(files, i, maxConcurrent, p) ==
    IF p \notin batchPositions(files, i, maxConcurrent) THEN <<>>
    ELSE <<[current |-> i + batchIndexOf(files, i, maxConcurrent, p),
            total |-> Len(files), fileName |-> files[p]]>>
         \o progressCalls(files, i, maxConcurrent, p + 1)

\* a variant of the wait that ends when any callback of the window has settled
windowSettled_Any(t, positions) ==
    positions = {} \/ \E p \in positions : t[p].pc \in SettledPcs

\* await Promise.all(batchPromises): every callback of the window has settled
\* (no callback rejects: each catches what it throws)
windowSettled(t, positions) == \A p \in positions : t[p].pc \in SettledPcs

\* a variant of the catch block that records the message without counting
recordFailure_NotCounted(res, fileName, message) ==
    [res EXCEPT !.errors = Append(@, [fileName |-> fileName, message |-> message])]

\* the catch block of a callback, lines 293-296
recordFailure(res, fileName, message) ==
    [res EXCEPT !.failed = @ + 1,
                !.errors = Append(@, [fileName |-> fileName, message |-> message])]

\* batchGenerate is called: lines 253-259
BatchGenerate ==
    \E files \in SeqsUpTo(DocNames, MaxFiles), templateId \in {"general-note", UnknownId},
       maxConcurrent \in 0..MaxConcurrent, replaceExisting \in BOOLEAN :
        /\ bpc = "idle"
        /\ bArgs' = [files |-> files, templateId |-> templateId,
                     maxConcurrent |-> maxConcurrent, replaceExisting |-> replaceExisting]
        /\ \/ /\ getTemplate(templates, templateId) = {}
              /\ bpc' = "thrown"
              /\ task' = task
           \/ /\ getTemplate(templates, templateId) # {}
              /\ bpc' = "loop"
              /\ task' = [p \in 1..Len(files) |-> NewTask]
        /\ UNCHANGED <<bI, results, progress, orchVars, storeVars, insVars, genVars, pureVars>>

\* the loop test holds: the window's callbacks run up to their first await
BatchWindow ==
    /\ bpc = "loop"
    /\ bI < Len(bArgs.files)
    /\ progress' = progress \o progressCalls(bArgs.files, bI, bArgs.maxConcurrent, bI + 1)
    /\ task' = [p \in DOMAIN task |->
                  IF p \in batchPositions(bArgs.files, bI, bArgs.maxConcurrent)
                  THEN [task[p] EXCEPT !.pc = "read"] ELSE task[p]]
    /\ bpc' = "await"
    /\ UNCHANGED <<bArgs, bI, results, orchVars, storeVars, insVars, genVars, pureVars>>

\* Promise.all resolves; i += maxConcurrent
BatchWindowEnd ==
    /\ bpc = "await"
    /\ windowSettled(task, batchPositions(bArgs.files, bI, bArgs.maxConcurrent))
    /\ bI' = bI + bArgs.maxConcurrent
    /\ bpc' = "loop"
    /\ UNCHANGED <<bArgs, task, results, progress, orchVars, storeVars, insVars, genVars, pureVars>>

\* the loop test fails: return results
BatchReturn ==
    /\ bpc = "loop"
    /\ bI >= Len(bArgs.files)
    /\ bpc' = "returned"
    /\ UNCHANGED <<bArgs, bI, task, results, progress, orchVars, storeVars, insVars, genVars, pureVars>>

TaskFails(p, message) ==
    /\ task' = [task EXCEPT ![p] = [NewTask EXCEPT !.pc = "failed"]]
    /\ results' = recordFailure(results, bArgs.files[p], message)
    /\ UNCHANGED <<vault, usageStats>>

\* await vault.read(file) settles; extractDocumentContent; the empty check
TaskRead ==
    \E p \in DOMAIN task :
        /\ task[p].pc = "read"
        /\ \/ TaskFails(p, "read failed")
           \/ /\ Trim(extractDocumentContent(vault[bArgs.files[p]])) = <<>>
              /\ TaskFails(p, "Document content is empty")
           \/ /\ Trim(extractDocumentContent(vault[bArgs.files[p]])) # <<>>
              /\ task' = [task EXCEPT ![p].pc = "generate"]
              /\ UNCHANGED <<results, vault, usageStats>>
        /\ UNCHANGED <<bArgs, bpc, bI, progress, apiKey, storeVars, insVars, genVars, pureVars>>

\* await generateMetadata(request) resolves; the success check; insertMetadata
\* is called and suspends at its vault.read
TaskGenerate ==
    \E p \in DOMAIN task, response \in generateMetadataOutcomes(apiKey) :
        /\ task[p].pc = "generate"
        /\ \/ /\ ~response.success \/ response.metadata = <<>>
              /\ TaskFails(p, IF response.error # "" THEN response.error
                              ELSE "Generation failed")
           \/ /\ response.success /\ response.metadata # <<>>
              /\ task' = [task EXCEPT ![p].pc = "insRead", ![p].response = response]
              /\ UNCHANGED <<results, vault, usageStats>>
        /\ UNCHANGED <<bArgs, bpc, bI, progress, apiKey, storeVars, insVars, genVars, pureVars>>

\* insertMetadata: await vault.read(file) settles; newContent is computed and
\* vault.modify is called
TaskInsertRead ==
    \E p \in DOMAIN task :
        /\ task[p].pc = "insRead"
        /\ \/ TaskFails(p, "read failed")
           \/ /\ task' = [task EXCEPT
                    ![p].pc = "insWrite",
                    ![p].newContent = insertedText(vault[bArgs.files[p]],
                                                   task[p].response.metadata,
                                                   bArgs.replaceExisting)]
              /\ UNCHANGED <<results, vault, usageStats>>
        /\ UNCHANGED <<bArgs, bpc, bI, progress, apiKey, storeVars, insVars, genVars, pureVars>>

\* insertMetadata: await vault.modify(file, newContent) settles; then
\* updateUsageStats and results.success++
TaskInsertWrite ==
    \E p \in DOMAIN task :
        /\ task[p].pc = "insWrite"
        /\ \/ TaskFails(p, "write failed")
           \/ /\ vault' = [vault EXCEPT ![bArgs.files[p]] = task[p].newContent]
              /\ usageStats' = updateUsageStats(usageStats, task[p].response)
              /\ results' = [results EXCEPT !.success = @ + 1]
              /\ task' = [task EXCEPT ![p] = [NewTask EXCEPT !.pc = "ok"]]
        /\ UNCHANGED <<bArgs, bpc, bI, progress, apiKey, storeVars, insVars, genVars, pureVars>>

(***************************************************************************)
(* A generation started from a command: generateForCurrentFile,            *)
(* generateForFile, generateWithTemplate, AIService.generateMetadata and   *)
(* makeApiRequest, the two modals, insertMetadata.                         *)
(*                                                                         *)
(* gpc names the await or the modal the generation is suspended at:        *)
(*   gfRead     generateForFile's vault.read                               *)
(*   selecting  the template selection modal is open                       *)
(*   gwRead     extractExistingMetadata's vault.read                       *)
(*   fetch      makeApiRequest's fetch, the abort timer armed              *)
(*   errBody    response.text() of a response that is not ok               *)
(*   jsonBody   response.json() of a response that is ok                   *)
(*   aiReturned generateMetadata has resolved                              *)
(*   preview    the preview modal is open                                  *)
(*   insRead    insertMetadata's vault.read                                *)
(*   insWrite   insertMetadata's vault.modify                              *)
(***************************************************************************)
MaxRequests == 2   \* commands run and regenerations asked for in one behaviour

\* a document with a front-matter block, next to the plain ones
FrontMatterDoc ==
    <<"-", "-", "-", NL, "a", ":", " ", "1", NL, "-", "-", "-", NL, "t">>
GenTexts == VaultTexts \cup {FrontMatterDoc}

\* file.name of the documents
FileName(d) ==
    IF d = "d2" THEN <<"m", "e", "e", "t", "i", "n", "g", ".", "m", "d">>
    ELSE <<"d", "1", ".", "m", "d">>

\* insertMetadata's parameter replaceExisting: boolean = false, which the call
\* sites of a generation (lines 107 and 144) leave out
DefaultReplaceExisting == FALSE

NoReq == [file |-> "", auto |-> FALSE, preview |-> FALSE, caught |-> FALSE,
          body |-> <<>>, template |-> "", response |-> Failure(""),
          path |-> "", metadata |-> <<>>, before |-> <<>>, newContent |-> <<>>]
\* what response.json() resolves with: whether choices is missing, empty or
\* has elements, choices[0].message.content and usage.total_tokens
NoPayload == [choices |-> "none", content |-> <<>>, total_tokens |-> 0]
Payloads ==
    { [choices |-> "missing", content |-> <<>>, total_tokens |-> 0],
      [choices |-> "empty", content |-> <<>>, total_tokens |-> 0],
      [choices |-> "some", content |-> <<>>, total_tokens |-> 0],
      [choices |-> "some", content |-> <<" ">>, total_tokens |-> 0],
      [choices |-> "some", content |-> <<"a", ":", " ", "2">>, total_tokens |-> 0],
      [choices |-> "some", total_tokens |-> 7,
       content |-> FENCE \o <<"y", "a", "m", "l", NL, "c", ":", " ", "3", NL>> \o FENCE] }

\* makeApiRequest's check of data.choices (lines 652-654)
choicesMissing(payload) == payload.choices \in {"missing", "empty"}

\* a variant of parseResponse's check that lets an empty content through
contentMissing_Never(payload) == FALSE

\* parseResponse's check of choices[0]?.message?.content (lines 676-680)
contentMissing(payload) == payload.content = <<>>

\* generateMetadata from the payload on: makeApiRequest's check, parseResponse,
\* validateAndFormatMetadata, the result (lines 307-331, 650-656, 675-683)
responseOf(payload, currentDate) ==
    IF choicesMissing(payload) THEN Failure(NoChoices)
    ELSE IF contentMissing(payload) THEN Failure(INVALID_RESPONSE)
    ELSE LET formatted == validateAndFormatMetadata(Trim(payload.content), currentDate)
         IN  IF formatted.ok
             THEN Success([metadata |-> formatted.text, tokensUsed |-> payload.total_tokens])
             ELSE Failure(formatted.error)

NoAiCall == [state |-> "none", key |-> "", fetches |-> 0, payload |-> NoPayload,
             response |-> Failure("")]
NoGenLog == [file |-> "", before |-> [d \in DocNames |-> <<>>], statsBefore |-> ZeroStats, outcome |-> "none",
             withTemplate |-> FALSE, message |-> "", noticed |-> FALSE, edit |-> <<>>]
\* a generation starts on file
Started(file) == [NoGenLog EXCEPT !.file = file, !.before = vault,
                                  !.statsBefore = usageStats, !.outcome = "running"]
\* the running generation ends
Ended(outcome, message, noticed) ==
    [genLog EXCEPT !.outcome = outcome, !.message = message, !.noticed = noticed]
NoInsCall == [done |-> FALSE, path |-> "", replaceSetting |-> FALSE,
              before |-> <<>>, metadata |-> <<>>, after |-> <<>>]

GenInit ==
    /\ settings \in [previewBeforeInsert : BOOLEAN, replaceExistingMetadata : BOOLEAN]
    /\ gpc = "idle"
    /\ gReq = NoReq
    /\ gN = 0
    /\ netCalls = 0
    /\ notices = {}
    /\ uncaught = FALSE
    /\ aiCall = NoAiCall
    /\ insCall = NoInsCall
    /\ genLog = NoGenLog

GenIdle ==
    /\ settings = [previewBeforeInsert |-> TRUE, replaceExistingMetadata |-> FALSE]
    /\ gpc = "idle"
    /\ gReq = NoReq
    /\ gN = 0
    /\ netCalls = 0
    /\ notices = {}
    /\ uncaught = FALSE
    /\ aiCall = NoAiCall
    /\ insCall = NoInsCall
    /\ genLog = NoGenLog

\* new Notice(...)
Notice(text, detail) == [text |-> text, detail |-> detail]

\* the toggles of the settings tab (main.ts, lines 321-339); the tab is not
\* reachable while a modal of a generation is open
TogglePreviewBeforeInsert ==
    /\ gpc = "idle"
    /\ settings' = [settings EXCEPT !.previewBeforeInsert = ~@]
    /\ UNCHANGED <<gpc, gReq, gN, netCalls, notices, uncaught, aiCall, insCall, genLog,
                   orchVars, storeVars, insVars, batchVars, pureVars>>

ToggleReplaceExisting ==
    /\ gpc = "idle"
    /\ settings' = [settings EXCEPT !.replaceExistingMetadata = ~@]
    /\ UNCHANGED <<gpc, gReq, gN, netCalls, notices, uncaught, aiCall, insCall, genLog,
                   orchVars, storeVars, insVars, batchVars, pureVars>>

\* one of the two commands (main.ts, lines 25-40) is run on the active file:
\* generateForCurrentFile(auto, settings.previewBeforeInsert)
Command ==
    \E file \in DocNames, auto \in BOOLEAN :
        /\ gpc = "idle"
        /\ gN < MaxRequests
        /\ gN' = gN + 1
        /\ gReq' = [NoReq EXCEPT !.file = file, !.auto = auto,
                                 !.preview = settings.previewBeforeInsert]
        /\ gpc' = "gfRead"
        /\ aiCall' = NoAiCall
        /\ insCall' = NoInsCall
        /\ genLog' = Started(file)
        /\ UNCHANGED <<settings, netCalls, notices, uncaught,
                       orchVars, storeVars, insVars, batchVars, pureVars>>

\* the command is run with no Markdown file open
CommandNoFile ==
    /\ gpc = "idle"
    /\ gN < MaxRequests
    /\ gN' = gN + 1
    /\ notices' = notices \cup {Notice("Please open a Markdown file first", "")}
    /\ UNCHANGED <<settings, gpc, gReq, netCalls, uncaught, aiCall, insCall, genLog,
                   orchVars, storeVars, insVars, batchVars, pureVars>>

\* generateWithTemplate's catch block (lines 111-115) and what becomes of the
\* rejection: generateForFile's catch shows it when the call was awaited there
GwThrows(message) ==
    /\ usageStats' = [usageStats EXCEPT !.failedRequests = @ + 1]
    /\ IF gReq.caught
       THEN /\ notices' = notices \cup {Notice("Failed to generate metadata", message)}
            /\ uncaught' = uncaught
       ELSE /\ notices' = notices
            /\ uncaught' = TRUE
    /\ gpc' = "idle"
    /\ gReq' = NoReq
    /\ genLog' = Ended("failed", message, gReq.caught)

\* generateForFile: vault.read settles (lines 41-62)
GfRead ==
    /\ gpc = "gfRead"
    /\ LET body == extractDocumentContent(vault[gReq.file])
           suggestions == suggestTemplates(templates, body, FileName(gReq.file))
       IN  \/ /\ notices' = notices \cup {Notice("Failed to generate metadata", "read failed")}
              /\ gpc' = "idle"
              /\ gReq' = NoReq
              /\ genLog' = Ended("failed", "read failed", TRUE)
           \/ /\ Trim(body) = <<>>
              /\ notices' = notices
                    \cup {Notice("Document content is empty, cannot generate metadata", "")}
              /\ gpc' = "idle"
              /\ gReq' = NoReq
              /\ genLog' = Ended("failed", "Document content is empty", TRUE)
           \/ /\ Trim(body) # <<>>
              /\ gReq.auto
              /\ suggestions = <<>>
              /\ notices' = notices \cup {Notice("No suitable template found", "")}
              /\ gpc' = "idle"
              /\ gReq' = NoReq
              /\ genLog' = Ended("failed", "No suitable template found", TRUE)
           \/ /\ Trim(body) # <<>>
              /\ gReq.auto
              /\ suggestions # <<>>
              /\ gReq' = [gReq EXCEPT !.body = body, !.caught = TRUE,
                                      !.template = suggestions[1].template.id]
              /\ gpc' = "gwRead"
              /\ notices' = notices
              /\ genLog' = [genLog EXCEPT !.withTemplate = TRUE]
           \/ /\ Trim(body) # <<>>
              /\ ~gReq.auto
              /\ gReq' = [gReq EXCEPT !.body = body]
              /\ gpc' = "selecting"
              /\ notices' = notices
              /\ genLog' = genLog
    /\ UNCHANGED <<settings, gN, netCalls, uncaught, aiCall, insCall,
                   orchVars, storeVars, insVars, batchVars, pureVars>>

\* the selection modal: a template is picked and generateWithTemplate is
\* called, not awaited (lines 129-131)
SelectTemplate ==
    \E id \in DOMAIN templates :
        /\ gpc = "selecting"
        /\ gReq' = [gReq EXCEPT !.template = id, !.caught = FALSE]
        /\ gpc' = "gwRead"
        /\ genLog' = [genLog EXCEPT !.withTemplate = TRUE]
        /\ UNCHANGED <<settings, gN, netCalls, notices, uncaught, aiCall, insCall,
                       orchVars, storeVars, insVars, batchVars, pureVars>>

\* the selection modal is closed without a choice
SelectCancel ==
    /\ gpc = "selecting"
    /\ gpc' = "idle"
    /\ gReq' = NoReq
    /\ genLog' = Ended("cancelled", "", FALSE)
    /\ UNCHANGED <<settings, gN, netCalls, notices, uncaught, aiCall, insCall,
                   orchVars, storeVars, insVars, batchVars, pureVars>>

\* generateWithTemplate: extractExistingMetadata's read settles (line 81) and
\* generateMetadata is called (line 92); it runs up to its first await: the
\* apiKey check throws into its own catch, or fetch is called
GwRead ==
    /\ gpc = "gwRead"
    /\ \/ /\ GwThrows("read failed")
          /\ UNCHANGED <<netCalls, aiCall>>
       \/ /\ apiKeyMissing(apiKey)
          /\ aiCall' = [NoAiCall EXCEPT !.state = "returned", !.key = apiKey,
                                         !.response = Failure(API_KEY_MISSING)]
          /\ gReq' = [gReq EXCEPT !.response = Failure(API_KEY_MISSING)]
          /\ gpc' = "aiReturned"
          /\ UNCHANGED <<netCalls, usageStats, notices, uncaught, genLog>>
       \/ /\ ~apiKeyMissing(apiKey)
          /\ netCalls' = netCalls + 1
          /\ aiCall' = [NoAiCall EXCEPT !.state = "pending", !.key = apiKey, !.fetches = 1]
          /\ gpc' = "fetch"
          /\ UNCHANGED <<gReq, usageStats, notices, uncaught, genLog>>
    /\ UNCHANGED <<settings, gN, insCall, vault, apiKey, storeVars, insVars, batchVars, pureVars>>

\* generateMetadata resolves with response (it never rejects: lines 324-331)
AiReturns(response) ==
    /\ aiCall' = [aiCall EXCEPT !.state = "returned", !.response = response]
    /\ gReq' = [gReq EXCEPT !.response = response]
    /\ gpc' = "aiReturned"
    /\ UNCHANGED <<settings, gN, netCalls, notices, uncaught, insCall, genLog,
                   orchVars, storeVars, insVars, batchVars, pureVars>>

\* the abort timer fires while fetch is pending (lines 630, 662-664)
FetchTimeout ==
    /\ gpc = "fetch"
    /\ AiReturns(Failure("API request timeout"))

\* fetch rejects for a network error (lines 661-665)
FetchFails ==
    /\ gpc = "fetch"
    /\ AiReturns(Failure("Failed to fetch"))

\* fetch resolves with the response's headers; clearTimeout (lines 643-650)
FetchResponds ==
    \E ok \in BOOLEAN :
        /\ gpc = "fetch"
        /\ gpc' = IF ok THEN "jsonBody" ELSE "errBody"
        /\ UNCHANGED <<settings, gReq, gN, netCalls, notices, uncaught, aiCall, insCall, genLog,
                       orchVars, storeVars, insVars, batchVars, pureVars>>

\* response.text() settles (lines 646-647)
ErrorBody ==
    \E message \in {"API request failed", "Failed to fetch"} :
        /\ gpc = "errBody"
        /\ AiReturns(Failure(message))

\* response.json() settles; parseResponse; validateAndFormatMetadata
\* (lines 650-656, 310-322)
JsonBody ==
    /\ gpc = "jsonBody"
    /\ \/ AiReturns(Failure("Unexpected end of JSON input"))
       \/ \E payload \in Payloads, currentDate \in Dates :
             /\ aiCall' = [aiCall EXCEPT !.state = "returned", !.payload = payload,
                                         !.response = responseOf(payload, currentDate)]
             /\ gReq' = [gReq EXCEPT !.response = responseOf(payload, currentDate)]
             /\ gpc' = "aiReturned"
             /\ UNCHANGED <<settings, gN, netCalls, notices, uncaught, insCall, genLog,
                            orchVars, storeVars, insVars, batchVars, pureVars>>

\* a variant of generateWithTemplate that goes on with any response
generationFailed_Never(response) == FALSE

\* generateWithTemplate's test of the response (line 96)
generationFailed(response) == ~response.success \/ response.metadata = <<>>

\* generateWithTemplate after generateMetadata (lines 94-109)
AiReturned ==
    /\ gpc = "aiReturned"
    /\ \/ /\ generationFailed(gReq.response)
          /\ GwThrows(IF gReq.response.error # "" THEN gReq.response.error
                      ELSE "Generation failed")
       \/ /\ ~generationFailed(gReq.response)
          /\ usageStats' = updateUsageStats(usageStats, gReq.response)
          /\ IF gReq.preview
             THEN gpc' = "preview" /\ gReq' = gReq
             ELSE /\ gpc' = "insRead"
                  /\ gReq' = [gReq EXCEPT !.path = "direct",
                                          !.metadata = gReq.response.metadata]
          /\ UNCHANGED <<notices, uncaught, genLog>>
    /\ UNCHANGED <<settings, gN, netCalls, aiCall, insCall, vault, apiKey,
                   storeVars, insVars, batchVars, pureVars>>

\* the preview modal: the metadata, as shown or edited, is confirmed; the
\* callback is not awaited (lines 143-146)
PreviewConfirm ==
    \E finalMetadata \in {gReq.response.metadata} \cup {c.metadata : c \in Completions} :
        /\ gpc = "preview"
        /\ gReq' = [gReq EXCEPT !.path = "preview", !.metadata = finalMetadata,
                                !.caught = FALSE]
        /\ gpc' = "insRead"
        /\ UNCHANGED <<settings, gN, netCalls, notices, uncaught, aiCall, insCall, genLog,
                       orchVars, storeVars, insVars, batchVars, pureVars>>

PreviewCancel ==
    /\ gpc = "preview"
    /\ gpc' = "idle"
    /\ gReq' = NoReq
    /\ genLog' = Ended("cancelled", "", FALSE)
    /\ UNCHANGED <<settings, gN, netCalls, notices, uncaught, aiCall, insCall,
                   orchVars, storeVars, insVars, batchVars, pureVars>>

\* regenerate: generateForFile(file, false, true), not awaited (lines 148-151)
PreviewRegenerate ==
    /\ gpc = "preview"
    /\ gN < MaxRequests
    /\ gN' = gN + 1
    /\ gReq' = [NoReq EXCEPT !.file = gReq.file, !.auto = FALSE, !.preview = TRUE]
    /\ gpc' = "gfRead"
    /\ aiCall' = NoAiCall
    /\ insCall' = NoInsCall
    /\ genLog' = Started(gReq.file)
    /\ UNCHANGED <<settings, netCalls, notices, uncaught,
                   orchVars, storeVars, insVars, batchVars, pureVars>>

\* insertMetadata throws: inside generateWithTemplate's try on the direct path,
\* inside the un-awaited confirm callback on the preview path
InsFails(message) ==
    IF gReq.path = "direct"
    THEN GwThrows(message)
    ELSE /\ uncaught' = TRUE
         /\ gpc' = "idle"
         /\ gReq' = NoReq
         /\ genLog' = Ended("failed", message, FALSE)
         /\ UNCHANGED <<usageStats, notices>>

\* a variant of insertMetadata that uses the text the generation started with
insertionReads_Stale(file) == genLog.before[file]

\* insertMetadata: const content = await this.app.vault.read(file) (line 158)
insertionReads(file) == vault[file]

\* insertMetadata: vault.read settles and newContent is computed (lines 158-181)
InsRead ==
    /\ gpc = "insRead"
    /\ \/ InsFails("read failed")
       \/ /\ gReq' = [gReq EXCEPT
                !.before = insertionReads(gReq.file),
                !.newContent = insertedText(insertionReads(gReq.file), gReq.metadata,
                                            DefaultReplaceExisting)]
          /\ gpc' = "insWrite"
          /\ UNCHANGED <<usageStats, notices, uncaught, genLog>>
    /\ UNCHANGED <<settings, gN, netCalls, aiCall, insCall, vault, apiKey,
                   storeVars, insVars, batchVars, pureVars>>

\* insertMetadata: vault.modify settles (line 183); the Notice of lines 108, 145
InsWrite ==
    /\ gpc = "insWrite"
    /\ \/ /\ InsFails("write failed")
          /\ UNCHANGED <<vault, insCall>>
       \/ /\ vault' = [vault EXCEPT ![gReq.file] = gReq.newContent]
          /\ insCall' = [done |-> TRUE, path |-> gReq.path,
                         replaceSetting |-> settings.replaceExistingMetadata,
                         before |-> gReq.before, metadata |-> gReq.metadata,
                         after |-> gReq.newContent]
          /\ notices' = notices \cup
                {Notice(IF gReq.path = "direct" THEN "Metadata generated and inserted"
                        ELSE "Metadata inserted", "")}
          /\ gpc' = "idle"
          /\ gReq' = NoReq
          /\ genLog' = Ended("ok", "", TRUE)
          /\ UNCHANGED <<usageStats, uncaught>>
    /\ UNCHANGED <<settings, gN, netCalls, aiCall, apiKey, storeVars, insVars, batchVars, pureVars>>

(***************************************************************************)
(* Another party (the user in the editor, a sync) changes the document of  *)
(* the running generation while generateMetadata is awaited (line 92).     *)
(***************************************************************************)
\* the line the other party adds at the end of the document
EditedLine == <<NL, "e">>

ExternalEdit ==
    /\ gpc \in {"fetch", "errBody", "jsonBody"}
    /\ genLog.edit = <<>>
    /\ vault' = [vault EXCEPT ![gReq.file] = @ \o EditedLine]
    /\ genLog' = [genLog EXCEPT !.edit = vault[gReq.file] \o EditedLine]
    /\ UNCHANGED <<settings, gpc, gReq, gN, netCalls, notices, uncaught, aiCall, insCall,
                   apiKey, usageStats, storeVars, insVars, batchVars, pureVars>>

(***************************************************************************)
(* detectLanguage (part_000:416-488).  Characters outside ASCII are        *)
(* code-point tokens; one character stands for each script block.          *)
(***************************************************************************)
\* the ranges u3040-u309f and u30a0-u30ff: a hiragana, a katakana
KanaChars == {"u3042", "u30ab"}
\* the range uac00-ud7af: a Hangul syllable
HangulChars == {"ud55c"}
\* the range u0400-u04ff: a Cyrillic letter
CyrillicChars == {"u0436"}
\* the ranges u0100-u017f and u00c0-u00ff: an accented Latin letter
LatinExtendedChars == {"u00e9"}
\* \s
WhitespaceChars == {" ", NL}

\* (text.match(/[C]/g) || []).length
CountIn(s, C) == Cardinality({i \in DOMAIN s : s[i] \in C})

\* the characters the replace of line 417 keeps: \w, \s, u4e00-u9fff,
\* u3040-u309f, u30a0-u30ff, u0100-u017f, u00c0-u00ff
LanguageKeptChars ==
    WordChars \cup WhitespaceChars \cup HanChars \cup KanaChars \cup LatinExtendedChars

\* the word and letter scoring of lines 430-486, for a text in which none of
\* the common words, accented letters or consonant pairs occurs: every score
\* is 0 and detectedLang keeps its initial value
scoredLanguage(text) == "en"

\* detectLanguage (lines 416-488); c / total > 0.1 as 10 * c > total, which
\* is the same comparison for the lengths here and is false for 0 / 0
detectLanguage(content) ==
    LET text == RemoveCharsNotIn(ToLower(content), LanguageKeptChars)
        totalChars == Len(text)
        chineseChars == CountIn(text, HanChars)
        japaneseChars == CountIn(text, KanaChars)
        koreanChars == CountIn(text, HangulChars)
        russianChars == CountIn(text, CyrillicChars)
    IN  IF 10 * chineseChars > totalChars THEN "zh"
        ELSE IF 20 * japaneseChars > totalChars THEN "ja"
        ELSE IF 20 * koreanChars > totalChars THEN "ko"
        ELSE IF 10 * russianChars > totalChars THEN "ru"
        ELSE scoredLanguage(text)

(***************************************************************************)
(* The pure functions as state machines: an input is drawn, the function   *)
(* is applied to it.                                                       *)
(***************************************************************************)
MaxTagLen   == 3   \* characters of a tag value
MaxFmtLines == 3   \* lines of a model output
MaxLangLen  == 2   \* leading characters of a body given to detectLanguage
MaxLangPad  == 20  \* digits that follow them

TagAlphabet == {"A", "b", "1", " ", "_", "!", "-", "u673a", "u30ab"}
TagValues == SeqsUpTo(TagAlphabet, MaxTagLen)

FmtLineAlphabet ==
    { FENCE \o <<"y", "a", "m", "l">>,                                 \* (fence)yaml
      FENCE,                                                           \* (fence)
      DELIM,                                                           \* ---
      <<"d", ":", " ">> \o DATE_PLACEHOLDER,                           \* d: {{date}}
      TAGS \o <<" ", "[", "\"", "A", " ", "b", "\"", "]">>,            \* tags: ["A b"]
      TAGS,                                                            \* tags:
      <<"-", " ", "'", "A", " ", "b", "'">>,                           \* - 'A b'
      TITLE \o <<" ", "'", "A", " ", "b", "'">>,                       \* title: 'A b'
      <<"a", ":", " ", "1">> }                                         \* a: 1
FmtTexts == {JoinLines(ls) : ls \in SeqsUpTo(FmtLineAlphabet, MaxFmtLines) \ {<<>>}}

NotApplied == [done |-> FALSE, ok |-> FALSE, text |-> <<>>, error |-> ""]
Applied(r) == [done |-> TRUE, ok |-> r.ok, text |-> r.text, error |-> r.error]

LangAlphabet == {"1", " ", "!", "u673a", "u3042", "ud55c", "u0436"}
\* a few characters of any script followed by a run of digits
LangTexts ==
    {p \o [i \in 1..n |-> "1"] : p \in SeqsUpTo(LangAlphabet, MaxLangLen), n \in 0..MaxLangPad}

NotDetected == [done |-> FALSE, language |-> ""]
LangIdle == langIn = <<>> /\ langOut = NotDetected

LangInit ==
    /\ langIn \in LangTexts
    /\ langOut = NotDetected
    /\ tagIn = <<>> /\ tagOut = NotApplied
    /\ fmtIn = [text |-> <<>>, date |-> <<>>] /\ fmtOut = NotApplied /\ fmtAgain = NotApplied

\* detectLanguage(langIn) is called
DetectLanguage ==
    /\ ~langOut.done
    /\ langOut' = [done |-> TRUE, language |-> detectLanguage(langIn)]
    /\ UNCHANGED <<langIn, tagIn, tagOut, fmtIn, fmtOut, fmtAgain,
                   storeVars, insVars, orchVars, batchVars, genVars>>

PureIdle ==
    /\ tagIn = <<>> /\ tagOut = NotApplied
    /\ fmtIn = [text |-> <<>>, date |-> <<>>] /\ fmtOut = NotApplied /\ fmtAgain = NotApplied
    /\ LangIdle

TagInit ==
    /\ tagIn \in TagValues
    /\ tagOut = NotApplied
    /\ fmtIn = [text |-> <<>>, date |-> <<>>] /\ fmtOut = NotApplied /\ fmtAgain = NotApplied
    /\ LangIdle

\* formatSingleTag(tagIn) is called
FormatTag ==
    /\ ~tagOut.done
    /\ tagOut' = Applied(Returned(formatSingleTag(tagIn)))
    /\ UNCHANGED <<tagIn, fmtIn, fmtOut, fmtAgain, langIn, langOut,
                   storeVars, insVars, orchVars, batchVars, genVars>>

FmtInit ==
    /\ fmtIn \in [text : FmtTexts, date : Dates]
    /\ fmtOut = NotApplied
    /\ fmtAgain = NotApplied
    /\ tagIn = <<>> /\ tagOut = NotApplied
    /\ LangIdle

\* validateAndFormatMetadata is called on the model output
Format ==
    /\ ~fmtOut.done
    /\ fmtOut' = Applied(validateAndFormatMetadata(fmtIn.text, fmtIn.date))
    /\ UNCHANGED <<fmtIn, fmtAgain, tagIn, tagOut, langIn, langOut,
                   storeVars, insVars, orchVars, batchVars, genVars>>

\* validateAndFormatMetadata is called on what it returned, the same day
FormatAgain ==
    /\ fmtOut.done /\ fmtOut.ok
    /\ ~fmtAgain.done
    /\ fmtAgain' = Applied(validateAndFormatMetadata(fmtOut.text, fmtIn.date))
    /\ UNCHANGED <<fmtIn, fmtOut, tagIn, tagOut, langIn, langOut,
                   storeVars, insVars, orchVars, batchVars, genVars>>

(***************************************************************************)
(* A model output is formatted and the result inserted into a document, as *)
(* generateMetadata and then insertMetadata do (part_000:313,              *)
(* metadata-generator.ts:107).                                             *)
(***************************************************************************)
SmallDocs == {JoinLines(ls) : ls \in SeqsUpTo(DocLineAlphabet, MaxDocLines - 2)}

FormatInsertInit ==
    /\ FmtInit
    /\ fileText \in SmallDocs
    /\ insLog = <<>>

\* insertMetadata(file, response.metadata) with the formatter's output
InsertFormatted ==
    /\ fmtOut.done /\ fmtOut.ok
    /\ insLog = <<>>
    /\ MergeInto(fmtOut.text)

(***************************************************************************)
(* Specifications: each sub-model runs while the others stay idle.         *)
(***************************************************************************)
StoreIdle == templates = initializeBuiltInTemplates
             /\ lastOp = NoOp
InsIdle   == fileText = <<>> /\ insLog = <<>>
OrchIdle  == vault = [d \in DocNames |-> <<>>] /\ apiKey = "" /\ usageStats = ZeroStats

\* the inserter
InitInsert == InsInit /\ StoreIdle /\ OrchIdle /\ BatchInit /\ GenIdle /\ PureIdle
NextInsert == InsMerge \/ InsReplace
SpecInsert == InitInsert /\ [][NextInsert]_vars

\* the same metadata merged twice into one document
InitReinsert == ReinsertInit /\ StoreIdle /\ OrchIdle /\ BatchInit /\ GenIdle /\ PureIdle
NextReinsert == MergeOnce \/ MergeAgain
SpecReinsert == InitReinsert /\ [][NextReinsert]_vars

\* a model output formatted, then inserted
InitFormatInsert == FormatInsertInit /\ StoreIdle /\ OrchIdle /\ BatchInit /\ GenIdle
NextFormatInsert == Format \/ InsertFormatted
SpecFormatInsert == InitFormatInsert /\ [][NextFormatInsert]_vars

\* the template store
InitStore == StoreInit /\ InsIdle /\ OrchIdle /\ BatchInit /\ GenIdle /\ PureIdle
NextStore ==
    AddTemplate \/ UpdateTemplate \/ DeleteTemplate \/ DuplicateTemplate \/ LoadFromJson
SpecStore == InitStore /\ [][NextStore]_vars

\* one call of batchGenerate
InitBatch == OrchInit /\ BatchInit /\ StoreIdle /\ InsIdle /\ GenIdle /\ PureIdle
NextBatch ==
    \/ BatchGenerate \/ BatchWindow \/ BatchWindowEnd \/ BatchReturn
    \/ TaskRead \/ TaskGenerate \/ TaskInsertRead \/ TaskInsertWrite
SpecBatch == InitBatch /\ [][NextBatch]_vars
\* the same when every read, model call and write that is awaited settles and
\* the loop and Promise.all go on when they can
SpecBatchFair ==
    /\ SpecBatch
    /\ WF_vars(BatchWindow) /\ WF_vars(BatchWindowEnd) /\ WF_vars(BatchReturn)
    /\ WF_vars(TaskRead) /\ WF_vars(TaskGenerate)
    /\ WF_vars(TaskInsertRead) /\ WF_vars(TaskInsertWrite)

\* generations started from the commands
InitGen ==
    /\ vault \in [DocNames -> GenTexts]
    /\ apiKey \in {"", "k"}
    /\ usageStats = ZeroStats
    /\ GenInit /\ StoreIdle /\ InsIdle /\ BatchInit /\ PureIdle
NextGen ==
    \/ TogglePreviewBeforeInsert \/ ToggleReplaceExisting \/ Command \/ CommandNoFile
    \/ GfRead \/ SelectTemplate \/ SelectCancel \/ GwRead
    \/ FetchTimeout \/ FetchFails \/ FetchResponds \/ ErrorBody \/ JsonBody
    \/ AiReturned \/ PreviewConfirm \/ PreviewCancel \/ PreviewRegenerate
    \/ InsRead \/ InsWrite
SpecGen == InitGen /\ [][NextGen]_vars
\* the same with the abort timer of line 630 sure to fire while it is armed;
\* nothing makes the network deliver headers or a body
SpecGenTimer == SpecGen /\ WF_vars(FetchTimeout)

\* generations on one document that another party edits meanwhile
InitGenEdit ==
    /\ vault \in [DocNames -> GenTexts]
    /\ vault["d2"] = <<>>
    /\ apiKey = "k"
    /\ usageStats = ZeroStats
    /\ GenInit /\ StoreIdle /\ InsIdle /\ BatchInit /\ PureIdle
NextGenEdit == NextGen \/ ExternalEdit
SpecGenEdit == InitGenEdit /\ [][NextGenEdit]_vars

\* formatSingleTag on a tag value
InitTag == TagInit /\ StoreIdle /\ InsIdle /\ OrchIdle /\ BatchInit /\ GenIdle
NextTag == FormatTag
SpecTag == InitTag /\ [][NextTag]_vars

\* detectLanguage on a document body
InitLang == LangInit /\ StoreIdle /\ InsIdle /\ OrchIdle /\ BatchInit /\ GenIdle
NextLang == DetectLanguage
SpecLang == InitLang /\ [][NextLang]_vars

\* validateAndFormatMetadata on a model output, then on its own output
InitFormat == FmtInit /\ StoreIdle /\ InsIdle /\ OrchIdle /\ BatchInit /\ GenIdle
NextFormat == Format \/ FormatAgain
SpecFormat == InitFormat /\ [][NextFormat]_vars

(***************************************************************************)
(* The front-matter wire format, read line by line: the block opens with a *)
(* first line that is exactly --- and closes with the first later line     *)
(* that is exactly ---.                                                    *)
(***************************************************************************)
CloseLines(d) == {j \in 2..Len(SplitLines(d)) : SplitLines(d)[j] = DELIM}
WellFormed(d) == SplitLines(d)[1] = DELIM /\ CloseLines(d) # {}
CloseLine(d)  == CHOOSE j \in CloseLines(d) : \A k \in CloseLines(d) : j <= k
\* the lines between the two delimiter lines
BlockLines(d) == SubSeq(SplitLines(d), 2, CloseLine(d) - 1)
\* all text after the closing delimiter line
BodyText(d)   == JoinLines(SubSeq(SplitLines(d), CloseLine(d) + 1, Len(SplitLines(d))))
\* three hyphens occur in d only as its two delimiter lines' own text
DelimiterOnlyOnLines(d) ==
    IndexOf(d, DELIM, 3) = Len(JoinLines(SubSeq(SplitLines(d), 1, CloseLine(d) - 1))) + 1

IsTopLevelKeyLine(line) == IsKeyLine(line) /\ Head(line) \notin Whitespace
NewLinesOf(m) == FilterNonBlank(SplitLines(m))

\* C6: merge mode on well-formed front matter: the merged block starts with the
\* new metadata's lines, no old line of a key the new metadata defines follows
\* them, and every top-level key line only the old block has follows them.
MergeKeepsNewAndUnmatchedOld(e) ==
    LET new == NewLinesOf(e.metadata)
        n   == Len(new)
        old == BlockLines(e.before)
        blk == BlockLines(e.after)
    IN  /\ WellFormed(e.after)
        /\ Len(blk) >= n
        /\ SubSeq(blk, 1, n) = new
        /\ \A p \in (n + 1)..Len(blk) :
              IsKeyLine(blk[p]) => KeyOf(blk[p]) \notin ProcessedKeys(new)
        /\ \A q \in 1..Len(old) :
              (IsTopLevelKeyLine(old[q]) /\ KeyOf(old[q]) \notin ProcessedKeys(new))
                  => \E p \in (n + 1)..Len(blk) : blk[p] = old[q]

C6_MergeNewWinsOldKept ==
    \A i \in 1..Len(insLog) :
        (~insLog[i].replace /\ WellFormed(insLog[i].before))
            => MergeKeepsNewAndUnmatchedOld(insLog[i])

\* the old lines the merge rule of the specification keeps: a key-value line
\* when its key is not redefined, any other line when the key line before it
\* was kept (keptBefore: whether the nearest key line above was kept)
RECURSIVE KeptByPrecedingKey(_, _, _)
KeptByPrecedingKey(oldLines, keys, keptBefore) ==
    IF oldLines = <<>> THEN <<>>
    ELSE LET l == Head(oldLines)
         IN  IF IsKeyLine(l)
             THEN (IF KeyOf(l) \notin keys
                   THEN <<l>> \o KeptByPrecedingKey(Tail(oldLines), keys, TRUE)
                   ELSE KeptByPrecedingKey(Tail(oldLines), keys, FALSE))
             ELSE (IF keptBefore
                   THEN <<l>> \o KeptByPrecedingKey(Tail(oldLines), keys, keptBefore)
                   ELSE KeptByPrecedingKey(Tail(oldLines), keys, keptBefore))

\* C7: in merge mode a non-key-value line of the old block is kept only if the
\* key line immediately preceding it is kept: the list items under a redefined
\* key are dropped with it.
C7_ContinuationFollowsItsKey ==
    \A i \in 1..Len(insLog) :
        LET e   == insLog[i]
            new == NewLinesOf(e.metadata)
        IN  (~e.replace /\ WellFormed(e.before) /\ DelimiterOnlyOnLines(e.before))
                => /\ WellFormed(e.after)
                   /\ SubSeq(BlockLines(e.after), Len(new) + 1, Len(BlockLines(e.after)))
                        = KeptByPrecedingKey(FilterNonBlank(BlockLines(e.before)),
                                             ProcessedKeys(new), TRUE)

\* C8: a document that does not begin with --- gets the new block prepended,
\* followed by a blank line and the unmodified text, whatever replaceExisting is.
C8_NoFrontMatterPrepends ==
    \A i \in 1..Len(insLog) :
        ~StartsWith(insLog[i].before, DELIM)
            => insLog[i].after =
                 <<"-", "-", "-", NL>> \o insLog[i].metadata
                    \o <<NL, "-", "-", "-", NL, NL>> \o insLog[i].before

C8_Witness ==
    \E i \in 1..Len(insLog) :
        /\ ~StartsWith(insLog[i].before, DELIM)
        /\ insLog[i].before # <<>>
        /\ insLog[i].replace
        /\ fileText = insLog[i].after

\* C9: replace mode on well-formed front matter: the written block is exactly
\* the new metadata and the body is the input's body, character for character.
C9_ReplaceKeepsBody ==
    \A i \in 1..Len(insLog) :
        (insLog[i].replace /\ WellFormed(insLog[i].before))
            => /\ WellFormed(insLog[i].after)
               /\ JoinLines(BlockLines(insLog[i].after)) = insLog[i].metadata
               /\ BodyText(insLog[i].after) = BodyText(insLog[i].before)

\* C1: updateTemplate and deleteTemplate on the id of a built-in template of
\* the store return false and leave the store exactly as it was.
C1_BuiltInUpdateDeleteRefused ==
    [][ ( /\ lastOp'.n = lastOp.n + 1
          /\ lastOp'.op \in {"updateTemplate", "deleteTemplate"}
          /\ lastOp'.id \in DOMAIN templates
          /\ templates[lastOp'.id].isBuiltIn )
        => (lastOp'.ret = FALSE /\ templates' = templates) ]_vars

C1_Witness ==
    /\ lastOp.op = "updateTemplate"
    /\ lastOp.id \in BuiltInIds
    /\ lastOp.n = MaxStoreOps
    /\ lastOp.ret = FALSE
    /\ templates[lastOp.id].isBuiltIn
    /\ getCustomTemplates(templates) # {}

\* C2: every built-in template created at initialization is still stored
\* under its id, still marked built-in, with its original content.
C2_BuiltInsAlwaysPresent ==
    \A id \in BuiltInIds :
        id \in DOMAIN templates /\ templates[id] = BUILT_IN_TEMPLATES[id]

\* the positions of files whose callback is at one of the given pcs
TasksAt(pcs) == {p \in DOMAIN task : task[p].pc \in pcs}
\* the entries of the error list that name the document f
ErrorsNaming(f) == {k \in 1..Len(results.errors) : results.errors[k].fileName = f}

\* C3: batchGenerate with a known template does not throw; when it returns,
\* every document was processed, success + failed is the number of documents,
\* the error list has one entry per failed document, naming it, and every
\* document counted as a success was inserted into.
C3_BatchIsolatesFailures ==
    /\ bpc = "thrown" => getTemplate(templates, bArgs.templateId) = {}
    /\ bpc = "returned" =>
         /\ TasksAt(SettledPcs) = DOMAIN task
         /\ results.success + results.failed = Len(bArgs.files)
         /\ results.success = Cardinality(TasksAt({"ok"}))
         /\ results.failed = Cardinality(TasksAt({"failed"}))
         /\ Len(results.errors) = results.failed
         /\ \A f \in DocNames :
               Cardinality(ErrorsNaming(f))
                 = Cardinality({p \in TasksAt({"failed"}) : bArgs.files[p] = f})
         /\ \A p \in TasksAt({"ok"}) : StartsWith(vault[bArgs.files[p]], DELIM)

\* a failure in the first window, its sibling and the later window unaffected
C3_Witness ==
    /\ bpc = "returned"
    /\ bArgs.maxConcurrent = 2
    /\ Len(bArgs.files) = 3
    /\ task[1].pc = "failed" /\ task[2].pc = "ok" /\ task[3].pc = "ok"
    /\ results.success = 2 /\ results.failed = 1

\* the window of the document at position p (from 1) under maxConcurrent = k
WindowOf(p, k) == (p - 1) \div k

\* C4: with maxConcurrent = k >= 1, never more than k documents are in
\* progress, and no document of a later window has started while a document
\* of an earlier window is not completed.
C4_BoundedWindows ==
    (bpc \in {"loop", "await", "returned"} /\ bArgs.maxConcurrent >= 1) =>
        /\ Cardinality(TasksAt(InProgressPcs)) <= bArgs.maxConcurrent
        /\ \A p, q \in DOMAIN task :
              (WindowOf(p, bArgs.maxConcurrent) < WindowOf(q, bArgs.maxConcurrent)
                 /\ task[q].pc # "new")
                  => task[p].pc \in SettledPcs

\* the second window runs after the first, which was full, has completed
C4_Witness ==
    /\ bArgs.maxConcurrent = 2
    /\ Len(task) = 3
    /\ task[1].pc = "ok" /\ task[2].pc = "failed"
    /\ task[3].pc = "insWrite"

\* the first window is full: as many documents in progress as maxConcurrent
C4_WindowFull ==
    /\ bArgs.maxConcurrent = 2
    /\ task # <<>>
    /\ Cardinality(TasksAt(InProgressPcs)) = 2

\* C5: a call of generateMetadata made while the configured apiKey is empty
\* resolves (it is never left pending and never rejects) with success = false
\* and error = API_KEY_MISSING, and fetch is not called during it: no request
\* is ever in flight under an empty key.
C5_EmptyKeyFailsWithoutRequest ==
    /\ (aiCall.state # "none" /\ aiCall.key = "") =>
          /\ aiCall.state = "returned"
          /\ ~aiCall.response.success
          /\ aiCall.response.error = API_KEY_MISSING
          /\ aiCall.fetches = 0
    /\ apiKey = "" => (netCalls = 0 /\ gpc \notin {"fetch", "errBody", "jsonBody"})

\* generateMetadata was called under an empty key and its caller goes on
C5_Witness ==
    /\ apiKey = ""
    /\ aiCall.state = "returned"
    /\ aiCall.key = ""
    /\ gpc = "aiReturned"
    /\ gReq.response = Failure(API_KEY_MISSING)

\* C10: an insertion made by a generation while 'Replace existing metadata' is
\* enabled, on a document with a front-matter block, leaves the generated
\* metadata as the whole block (on the direct and on the preview path).
C10_ReplaceSettingReplaces ==
    (insCall.done /\ insCall.replaceSetting /\ WellFormed(insCall.before)) =>
        /\ WellFormed(insCall.after)
        /\ JoinLines(BlockLines(insCall.after)) = insCall.metadata

\* C11: an insertion, the body extraction and the extraction of the existing
\* metadata see a front-matter block exactly when the first line is --- and a
\* later line is ---, the first such line closing it: a text without such a
\* block gets the new block prepended and is its own body; a text with one
\* keeps the text after the closing line as its body.
C11_DelimitersAreWholeLines ==
    \A i \in 1..Len(insLog) :
        LET before == insLog[i].before
        IN  IF WellFormed(before)
            THEN /\ WellFormed(insLog[i].after)
                 /\ BodyText(insLog[i].after) = BodyText(before)
                 /\ extractDocumentContent(before) = Trim(BodyText(before))
                 /\ extractExistingMetadata(before) = {Trim(JoinLines(BlockLines(before)))}
            ELSE /\ insLog[i].after = Prepended(before, insLog[i].metadata)
                 /\ extractDocumentContent(before) = Trim(before)
                 /\ extractExistingMetadata(before) = {}

\* C12: the formatter is idempotent: applied, with the same date, to a text it
\* returned, it returns that text.
C12_FormatIdempotent ==
    fmtAgain.done => (fmtAgain.ok /\ fmtAgain.text = fmtOut.text)

\* the ASCII letters and digits
Alnum == WordChars \ {"_"}
\* the characters of the CJK scripts
CJKChars == HanChars \cup KanaHangulChars
KeptInCJKTag(c) == c \in Alnum \cup CJKChars

\* the maximal runs of letters and digits of s, in order
RECURSIVE AlnumRuns(_)
AlnumRuns(s) ==
    IF s = <<>> THEN <<>>
    ELSE IF Head(s) \notin Alnum THEN AlnumRuns(Tail(s))
    ELSE LET n == SpanOf(s, Alnum)
         IN  <<SubSeq(s, 1, n)>> \o AlnumRuns(Drop(s, n))

RECURSIVE JoinWithHyphen(_)
JoinWithHyphen(runs) ==
    IF runs = <<>> THEN <<>>
    ELSE IF Len(runs) = 1 THEN runs[1]
    ELSE runs[1] \o <<"-">> \o JoinWithHyphen(Tail(runs))

SuggestBodies ==
    { <<"t">>, <<"A", "g", "e", "n", "d", "a">>, <<"u4f1a", "u8bae">>, <<"i", "s", "b", "n">> }
SuggestNames ==
    { <<>>, <<"M", "e", "e", "t", "i", "n", "g", ".", "m", "d">>, <<"d", "1", ".", "m", "d">> }

MentionsMeeting(body, name) ==
    \/ \E keyword \in MeetingKeywords : Includes(ToLower(body), keyword)
    \/ Includes(ToLower(name), <<"m", "e", "e", "t", "i", "n", "g">>)

\* C14: for every body and file name the suggestions are in non-increasing
\* order of confidence, each above 0.2, and when the body holds a meeting
\* keyword or the name holds "meeting" the first one is meeting-notes at 0.9.
C14_SuggestionsOrdered ==
    \A body \in SuggestBodies, name \in SuggestNames :
        LET s == suggestTemplates(templates, body, name)
        IN  /\ \A i \in 1..(Len(s) - 1) : s[i].confidence >= s[i + 1].confidence
            /\ \A i \in 1..Len(s) : s[i].confidence > 20
            /\ MentionsMeeting(body, name) =>
                 /\ s # <<>>
                 /\ s[1].template.id = "meeting-notes"
                 /\ s[1].confidence = 90

\* C15: in every state of the store and for every body and file name the
\* suggestions include general-note with confidence 0.3.
C15_GeneralNoteAlwaysSuggested ==
    \A body \in SuggestBodies, name \in SuggestNames :
        LET s == suggestTemplates(templates, body, name)
        IN  \E i \in 1..Len(s) :
              s[i].template.id = "general-note" /\ s[i].confidence = 30

\* C16: every generation that ran generateWithTemplate and has ended, ok or
\* failed, has added one to totalRequests and one to exactly one of
\* successfulRequests and failedRequests, so that in every state
\* totalRequests is the sum of the two.
C16_EveryRequestCounted ==
    /\ usageStats.totalRequests
          = usageStats.successfulRequests + usageStats.failedRequests
    /\ (genLog.withTemplate /\ genLog.outcome \in {"ok", "failed"}) =>
          /\ usageStats.totalRequests = genLog.statsBefore.totalRequests + 1
          /\ \/ /\ usageStats.successfulRequests = genLog.statsBefore.successfulRequests + 1
                /\ usageStats.failedRequests = genLog.statsBefore.failedRequests
             \/ /\ usageStats.successfulRequests = genLog.statsBefore.successfulRequests
                /\ usageStats.failedRequests = genLog.statsBefore.failedRequests + 1

\* C17: a generation that ended in failure left every document and the
\* template store as they were when it started, and a document differs from
\* what it was at the start only when generateMetadata has returned a
\* successful response whose metadata is the formatter's output.
C17_FailureLeavesDocument ==
    /\ genLog.outcome = "failed" =>
          (vault = genLog.before /\ templates = initializeBuiltInTemplates)
    /\ (genLog.outcome # "none" /\ vault # genLog.before) =>
          /\ aiCall.state = "returned"
          /\ aiCall.response.success
          /\ \E currentDate \in Dates :
                LET formatted == validateAndFormatMetadata(Trim(aiCall.payload.content),
                                                           currentDate)
                IN  formatted.ok /\ formatted.text = aiCall.response.metadata

\* a request that timed out has ended in failure, the documents as before
C17_Witness ==
    /\ genLog.outcome = "failed"
    /\ aiCall.state = "returned"
    /\ aiCall.response = Failure("API request timeout")
    /\ vault = genLog.before

\* C18: every generation that ended in failure showed the user a message and
\* added one to failedRequests, and no error ever escapes uncaught.
C18_FailuresCaught ==
    /\ ~uncaught
    /\ genLog.outcome = "failed" =>
          /\ genLog.noticed
          /\ usageStats.failedRequests = genLog.statsBefore.failedRequests + 1

\* C20: when the 2xx payload has no choices or an empty choices array,
\* generateMetadata returns success = false with the error INVALID_RESPONSE.
C20_NoChoicesIsInvalidResponse ==
    (aiCall.state = "returned" /\ aiCall.payload.choices \in {"missing", "empty"}) =>
        (~aiCall.response.success /\ aiCall.response.error = INVALID_RESPONSE)

\* C19: every generateMetadata call whose request is in flight eventually
\* returns: when the request is not complete, headers and body, within the
\* timeout, it is aborted and the call returns the timeout error.
C19_RequestEventuallyReturns ==
    (aiCall.state = "pending") ~> (aiCall.state = "returned")

\* C21: on the text with punctuation stripped, detectLanguage returns zh when
\* more than 0.10 of the characters are Chinese, otherwise ja when more than
\* 0.05 are Japanese, otherwise ko when more than 0.05 are Hangul, otherwise
\* ru when more than 0.10 are Cyrillic; a text mostly of Hangul gives ko and
\* a text mostly of Cyrillic gives ru.
C21_ScriptRatioRules ==
    langOut.done =>
        LET text == RemoveCharsNotIn(ToLower(langIn),
                        LanguageKeptChars \cup HangulChars \cup CyrillicChars)
            n == Len(text)
        IN  IF 10 * CountIn(text, HanChars) > n THEN langOut.language = "zh"
            ELSE IF 20 * CountIn(text, KanaChars) > n THEN langOut.language = "ja"
            ELSE IF 20 * CountIn(text, HangulChars) > n THEN langOut.language = "ko"
            ELSE IF 10 * CountIn(text, CyrillicChars) > n THEN langOut.language = "ru"
            ELSE TRUE

\* C22: no two callbacks of one batchGenerate call are inside insertMetadata
\* (between its read and the end of its write) on the same document at the
\* same time.
C22_OneInsertionPerDocument ==
    \A p, q \in DOMAIN task :
        (/\ p # q
         /\ bArgs.files[p] = bArgs.files[q]
         /\ task[p].pc \in {"insRead", "insWrite"})
            => task[q].pc \notin {"insRead", "insWrite"}

\* C23: every addTemplate call stores the new template under an id that was
\* not in the store: the store has one more template, every template stored
\* before is unchanged, and the returned template is the one under its id.
C23_AddAssignsFreshId ==
    [][(lastOp'.op = "addTemplate" /\ lastOp'.n = lastOp.n + 1) =>
          /\ lastOp'.id \notin DOMAIN templates
          /\ Cardinality(DOMAIN templates') = Cardinality(DOMAIN templates) + 1
          /\ \A k \in DOMAIN templates : templates'[k] = templates[k]
          /\ templates'[lastOp'.id] = lastOp'.ret]_vars

\* C24: after loadFromJson(list) the custom templates of the store are
\* exactly the entries of list not marked built-in, and the built-in
\* templates are those of before the call.
C24_LoadReplacesCustomOnly ==
    [][(lastOp'.op = "loadFromJson" /\ lastOp'.n = lastOp.n + 1) =>
          /\ getCustomTemplates(templates') = {e \in lastOp'.given : ~e.isBuiltIn}
          /\ getBuiltInTemplates(templates') = getBuiltInTemplates(templates)]_vars

\* C25: onProgress is called once for each position of the list, before the
\* document at that position is read, with the position (from 0), the length
\* of the list and the document's name.
C25_ProgressPerDocument ==
    /\ \A p \in DOMAIN task :
          task[p].pc # "new" =>
              /\ Len(progress) >= p
              /\ progress[p] = [current |-> p - 1, total |-> Len(bArgs.files),
                                fileName |-> bArgs.files[p]]
    /\ bpc = "returned" => Len(progress) = Len(bArgs.files)

\* C26: for every list and every maxConcurrent, a batchGenerate call that has
\* entered its loop eventually returns, when every read, model call and
\* write it awaits settles.
C26_BatchEventuallyReturns ==
    (bpc = "loop") ~> (bpc = "returned")

\* C27: inserting the same metadata again in merge mode into the document a
\* merge-mode insertion wrote leaves that document unchanged.
C27_MergeIdempotent ==
    Len(insLog) = 2 => insLog[2].after = insLog[2].before

\* C28: the body extracted from the document insertMetadata(d, m) wrote, for
\* m an output of the formatter, is the body extracted from d.
C28_BodySurvivesInsertion ==
    Len(insLog) = 1 =>
        extractDocumentContent(insLog[1].after) = extractDocumentContent(insLog[1].before)

\* C29: when the document was changed by another party while the generation
\* awaited the model, the insertion that ends the generation was computed
\* from the changed text and the change is in the document it wrote.
C29_InsertionReadsCurrentText ==
    (genLog.outcome = "ok" /\ genLog.edit # <<>>) =>
        /\ insCall.done
        /\ insCall.before = genLog.edit
        /\ EndsWith(vault[genLog.file], EditedLine)

\* a generation whose document was changed meanwhile has inserted
C29_Witness ==
    /\ genLog.outcome = "ok"
    /\ genLog.edit # <<>>
    /\ insCall.done
    /\ vault[genLog.file] # genLog.edit

\* C30: for every body and file name, no template returned by
\* suggestTemplates is a custom one: every suggestion is a built-in template
\* stored under one of the five category ids.
C30_OnlyBuiltInsSuggested ==
    \A body \in SuggestBodies, name \in SuggestNames :
        LET s == suggestTemplates(templates, body, name)
        IN  \A i \in 1..Len(s) :
              s[i].template.isBuiltIn /\ s[i].template.id \in BuiltInIds

====
